---- MODULE Spec2Model ----
(***************************************************************************)
(* A model of the conker runtime (src/src/runtime.rs) and of its           *)
(* tree-walking evaluator (src/src/interpreter.rs).                        *)
(*                                                                         *)
(* run_code registers the parsed task definitions (add_task), wires the    *)
(* channels (create_task_channels), spawns one worker thread per task      *)
(* frame (start) and collects the completion messages (join).  A worker    *)
(* evaluates its body statement by statement; a Send and a Receive on a    *)
(* crossbeam bounded(0) channel block until the two sides are paired.      *)
(***************************************************************************)
EXTENDS Integers, Sequences, FiniteSets, TLC

(***************************************************************************)
(* Values (interpreter.rs, enum Value) and results.                        *)
(***************************************************************************)
Null == [tag |-> "Null"]

Integer(i) == [tag |-> "Integer", i |-> i]

Boolean(b) == [tag |-> "Boolean", b |-> b]

TaskReference(id, name) == [tag |-> "TaskReference", id |-> id, name |-> name]

MagicOut == [tag |-> "MagicTaskReference", magic |-> "Out"]

Array(items) == [tag |-> "Array", items |-> items]

RangeValue(begin, end) == [tag |-> "Range", begin |-> begin, end |-> end]

InterpreterError(message) == [tag |-> "InterpreterError", message |-> message]

Ok(v) == [ok |-> TRUE, value |-> v]

Err(message) == [ok |-> FALSE, value |-> InterpreterError(message)]

\* Option<usize>: None is the empty sequence, Some(i) is <<i>>.
None == << >>

Some(i) == << i >>

\* HashMap: a function whose domain is the set of keys.
EmptyMap == [k \in {} |-> Null]

MapInsert(m, k, v) == [x \in (DOMAIN m) \cup {k} |-> IF x = k THEN v ELSE m[x]]

(***************************************************************************)
(* Nodes (node.rs, enum NodeKind).                                         *)
(***************************************************************************)
Body(items) == [kind |-> "Body", items |-> items]

IntegerLiteral(i) == [kind |-> "IntegerLiteral", i |-> i]

BooleanLiteral(b) == [kind |-> "BooleanLiteral", b |-> b]

NullLiteral == [kind |-> "NullLiteral"]

ArrayLiteral(items) == [kind |-> "ArrayLiteral", items |-> items]

RangeNode(begin, end) == [kind |-> "Range", begin |-> begin, end |-> end]

Identifier(name) == [kind |-> "Identifier", name |-> name]

BinaryOperation(left, op, right) ==
    [kind |-> "BinaryOperation", left |-> left, op |-> op, right |-> right]

If(condition, if_true) == [kind |-> "If", condition |-> condition, if_true |-> if_true]

While(condition, body) == [kind |-> "While", condition |-> condition, body |-> body]

Assign(destination, value) == [kind |-> "Assign", value |-> value, destination |-> destination]

Index(value, index) == [kind |-> "Index", value |-> value, index |-> index]

Send(value, channel) == [kind |-> "Send", value |-> value, channel |-> channel]

Receive(value, channel, bind_channel) ==
    [kind |-> "Receive", value |-> value, channel |-> channel, bind_channel |-> bind_channel]

Exit == [kind |-> "Exit"]

(***************************************************************************)
(* Value helpers (interpreter.rs, impl Value).                             *)
(***************************************************************************)
\* Mutant of is_truthy: the integer zero is falsy too.
is_truthy_nonzero(v) ==
    CASE v.tag = "Boolean" -> v.b
      [] v.tag = "Null" -> FALSE
      [] v.tag = "Integer" -> v.i # 0
      [] OTHER -> TRUE

is_truthy(v) ==
    CASE v.tag = "Boolean" -> v.b
      [] v.tag = "Null" -> FALSE
      [] OTHER -> TRUE

\* get_integer and get_task_id: Ok(payload) or Err(message).
get_integer(v) ==
    IF v.tag = "Integer" THEN Ok(v.i) ELSE Err("expected an integer")

get_task_id(v) ==
    IF v.tag = "TaskReference" THEN Ok(v.id) ELSE Err("expected a task")

\* formatted_name: name, or name[index] for a replica.
formatted_name(name, index) ==
    IF index = None THEN name ELSE name \o "[" \o ToString(index[1]) \o "]"

\* Mutant of wrap_as_index: the index is taken as it is.
wrap_as_index_unwrapped(index, len) == index

\* wrap_as_index: a negative index counts from the end.  The cast to usize of
\* a value that is still negative gives a number above every length; it is
\* kept negative here and every lookup treats it as out of range.
wrap_as_index(index, len) == IF index < 0 THEN len + index ELSE index

\* Mutant of SliceGet: positions are counted from one.
SliceGetFromOne(items, k) == IF 1 <= k /\ k <= Len(items) THEN Some(items[k]) ELSE None

\* Vec::get(usize): Some(item) inside the vector, None outside.
SliceGet(items, k) == IF 0 <= k /\ k < Len(items) THEN Some(items[k + 1]) ELSE None

\* Mutant of SliceGetRange: the end of the range is included.
SliceGetRangeInclusive(items, b, e) ==
    IF 0 <= b /\ 0 <= e /\ b <= e /\ e < Len(items)
    THEN Some(SubSeq(items, b + 1, e + 1))
    ELSE None

\* Vec::get(begin..end): None when begin > end or end > len.
SliceGetRange(items, b, e) ==
    IF 0 <= b /\ 0 <= e /\ b <= e /\ e <= Len(items)
    THEN Some(SubSeq(items, b + 1, e))
    ELSE None

\* The width of an Integer.  i64 has 64 bits; the model keeps two's-complement
\* arithmetic at a width of IntegerBits bits.
IntegerBits == 4

MinInteger == -(2 ^ (IntegerBits - 1))

MaxInteger == 2 ^ (IntegerBits - 1) - 1

\* The two's-complement value of the low IntegerBits bits of x.
Wrap(x) == ((x - MinInteger) % (2 ^ IntegerBits)) + MinInteger

\* Mutant of TruncDiv: the quotient of the magnitudes, without its sign.
TruncDivMagnitude(a, b) == (IF a < 0 THEN -a ELSE a) \div (IF b < 0 THEN -b ELSE b)

\* i64 division truncates toward zero.
TruncDiv(a, b) ==
    LET q == (IF a < 0 THEN -a ELSE a) \div (IF b < 0 THEN -b ELSE b)
    IN IF (a < 0) = (b < 0) THEN q ELSE -q

(***************************************************************************)
(* TaskState::resolve and create_or_assign_local.  A task state st is a    *)
(* record with the fields of struct TaskState.                             *)
(***************************************************************************)
\* Mutant of resolve: a local binding is looked up before the magic names.
resolve_locals_first(st, name, globals) ==
    IF name \in DOMAIN st.locals THEN Ok(st.locals[name])
    ELSE IF name = "$out" THEN Ok(MagicOut)
    ELSE IF name = "$index"
    THEN (IF st.index # None THEN Ok(Integer(st.index[1])) ELSE Ok(Null))
    ELSE IF name \in DOMAIN globals.task_values_by_name
    THEN Ok(globals.task_values_by_name[name])
    ELSE Err("could not find")

resolve(st, name, globals) ==
    IF name = "$out" THEN Ok(MagicOut)
    ELSE IF name = "$index"
    THEN (IF st.index # None THEN Ok(Integer(st.index[1])) ELSE Ok(Null))
    ELSE IF name \in DOMAIN st.locals THEN Ok(st.locals[name])
    ELSE IF name \in DOMAIN globals.task_values_by_name
    THEN Ok(globals.task_values_by_name[name])
    ELSE Err("could not find")

\* Mutant of create_or_assign_local: the assignment also empties the frame's
\* table of senders.
create_or_assign_local_dropping_senders(st, name, value) ==
    [st EXCEPT !.locals = MapInsert(st.locals, name, value), !.senders = EmptyMap]

create_or_assign_local(st, name, value) ==
    [st EXCEPT !.locals = MapInsert(st.locals, name, value)]

\* Mutant of get_sender_to_task: a task ID without an entry yields the
\* channel 0, which nobody receives from, instead of an error.
get_sender_to_task_unchecked(st, id) ==
    IF id \in DOMAIN st.senders THEN Ok(st.senders[id]) ELSE Ok(0)

get_sender_to_task(st, id) ==
    IF id \in DOMAIN st.senders THEN Ok(st.senders[id]) ELSE Err("no sender for task ID")

get_receiver_from_task(st, id) ==
    IF id \in DOMAIN st.receivers THEN Ok(st.receivers[id]) ELSE Err("no receiver for task ID")

(***************************************************************************)
(* TaskState::evaluate on the nodes that never block: literals, arrays,    *)
(* ranges, identifiers, binary operations, assignments and indexing.  The  *)
(* outcome is the Result together with the task state the evaluation       *)
(* leaves behind; panic is set when the thread unwinds instead of          *)
(* returning (integer division by zero, arithmetic overflow).  Whether an  *)
(* overflow of +, - or * panics or wraps depends on how the crate was      *)
(* built: overflow_checks is that setting of the build.                    *)
(***************************************************************************)
Returned(result, st) == [panic |-> FALSE, result |-> result, st |-> st]

Panicked(st) == [panic |-> TRUE, result |-> Err("panic"), st |-> st]

Failed(out) == out.panic \/ ~out.result.ok

\* The operators +, -, * and / of i64 applied to the exact operands: the exact
\* result, which may lie outside MinInteger .. MaxInteger.
Exact(op, left, right) ==
    CASE op = "Add" -> left + right
      [] op = "Subtract" -> left - right
      [] op = "Multiply" -> left * right
      [] op = "Divide" -> TruncDiv(left, right)

\* The operation leaves the range of i64.
Overflows(op, left, right) ==
    /\ op \in {"Add", "Subtract", "Multiply", "Divide"}
    /\ right # 0 \/ op # "Divide"
    /\ Exact(op, left, right) \notin MinInteger .. MaxInteger

\* `left op right` panics: a division by zero and a division that overflows
\* (the minimum by -1) panic in every build; +, - and * panic on overflow when
\* the build has overflow checks (the default of a debug build) and wrap when
\* it has none (the default of a release build).
ArithmeticPanics(op, left, right, overflow_checks) ==
    \/ op = "Divide" /\ right = 0
    \/ op = "Divide" /\ Overflows(op, left, right)
    \/ overflow_checks /\ Overflows(op, left, right)

BinaryResult(op, left, right) ==
    CASE op \in {"Add", "Subtract", "Multiply", "Divide"} ->
            Integer(Wrap(Exact(op, left, right)))
      [] op = "Equals" -> Boolean(left = right)
      [] op = "LessThan" -> Boolean(left < right)
      [] op = "GreaterThan" -> Boolean(left > right)

\* Mutant of IndexResult: an index or a range outside the array yields Null.
IndexResultOrNull(value, index) ==
    IF value.tag # "Array" THEN Err("expected array")
    ELSE IF index.tag = "Integer"
    THEN LET item == SliceGet(value.items, wrap_as_index(index.i, Len(value.items)))
         IN IF item # None THEN Ok(item[1]) ELSE Ok(Null)
    ELSE IF index.tag = "Range"
    THEN LET b == get_integer(index.begin)
             e == get_integer(index.end)
         IN IF ~b.ok THEN b
            ELSE IF ~e.ok THEN e
            ELSE LET items == SliceGetRange(value.items,
                                  wrap_as_index(b.value, Len(value.items)),
                                  wrap_as_index(e.value, Len(value.items)))
                 IN IF items # None THEN Ok(Array(items[1])) ELSE Ok(Null)
    ELSE Err("expected integer or range as index")

\* NodeKind::Index once the value and the index are evaluated.
IndexResult(value, index) ==
    IF value.tag # "Array" THEN Err("expected array")
    ELSE IF index.tag = "Integer"
    THEN LET item == SliceGet(value.items, wrap_as_index(index.i, Len(value.items)))
         IN IF item # None THEN Ok(item[1]) ELSE Err("index is out of range")
    ELSE IF index.tag = "Range"
    THEN LET b == get_integer(index.begin)
             e == get_integer(index.end)
         IN IF ~b.ok THEN b
            ELSE IF ~e.ok THEN e
            ELSE LET items == SliceGetRange(value.items,
                                  wrap_as_index(b.value, Len(value.items)),
                                  wrap_as_index(e.value, Len(value.items)))
                 IN IF items # None THEN Ok(Array(items[1]))
                    ELSE Err("indeces are out of range")
    ELSE Err("expected integer or range as index")

RECURSIVE evaluate(_, _, _, _)
RECURSIVE EvaluateItems(_, _, _, _, _, _)

\* The items of an ArrayLiteral from position k on, left to right, stopping
\* at the first failure (collect::<Result<Vec<_>, _>>).
EvaluateItems(st, items, k, acc, globals, overflow_checks) ==
    IF k > Len(items) THEN Returned(Ok(Array(acc)), st)
    ELSE LET out == evaluate(st, items[k], globals, overflow_checks)
         IN IF Failed(out) THEN out
            ELSE EvaluateItems(out.st, items, k + 1, Append(acc, out.result.value), globals,
                               overflow_checks)

evaluate(st, node, globals, overflow_checks) ==
    CASE node.kind = "IntegerLiteral" -> Returned(Ok(Integer(node.i)), st)
      [] node.kind = "BooleanLiteral" -> Returned(Ok(Boolean(node.b)), st)
      [] node.kind = "NullLiteral" -> Returned(Ok(Null), st)
      [] node.kind = "ArrayLiteral" -> EvaluateItems(st, node.items, 1, << >>, globals, overflow_checks)
      [] node.kind = "Range" ->
            LET begin == evaluate(st, node.begin, globals, overflow_checks)
            IN IF Failed(begin) THEN begin
               ELSE LET end == evaluate(begin.st, node.end, globals, overflow_checks)
                    IN IF Failed(end) THEN end
                       ELSE Returned(Ok(RangeValue(begin.result.value, end.result.value)), end.st)
      [] node.kind = "Identifier" -> Returned(resolve(st, node.name, globals), st)
      [] node.kind = "BinaryOperation" ->
            LET left == evaluate(st, node.left, globals, overflow_checks)
            IN IF Failed(left) THEN left
               ELSE LET li == get_integer(left.result.value)
                    IN IF ~li.ok THEN Returned(li, left.st)
                       ELSE LET right == evaluate(left.st, node.right, globals, overflow_checks)
                            IN IF Failed(right) THEN right
                               ELSE LET ri == get_integer(right.result.value)
                                    IN IF ~ri.ok THEN Returned(ri, right.st)
                                       ELSE IF ArithmeticPanics(node.op, li.value, ri.value,
                                                                overflow_checks)
                                       THEN Panicked(right.st)
                                       ELSE Returned(Ok(BinaryResult(node.op, li.value, ri.value)),
                                                     right.st)
      [] node.kind = "Assign" ->
            LET value == evaluate(st, node.value, globals, overflow_checks)
            IN IF Failed(value) THEN value
               ELSE IF node.destination.kind # "Identifier"
               THEN Returned(Err("expected identifier for result of assign"), value.st)
               ELSE Returned(Ok(Null),
                             create_or_assign_local(value.st, node.destination.name,
                                                    value.result.value))
      [] node.kind = "Index" ->
            LET value == evaluate(st, node.value, globals, overflow_checks)
            IN IF Failed(value) THEN value
               ELSE LET index == evaluate(value.st, node.index, globals, overflow_checks)
                    IN IF Failed(index) THEN index
                       ELSE Returned(IndexResult(value.result.value, index.result.value),
                                     index.st)

RECURSIVE to_printable_string(_)
RECURSIVE JoinPrintable(_, _)

\* The items of an array from position k on, separated by ", ".
JoinPrintable(items, k) ==
    IF k > Len(items) THEN ""
    ELSE to_printable_string(items[k])
         \o (IF k < Len(items) THEN ", " \o JoinPrintable(items, k + 1) ELSE "")

to_printable_string(v) ==
    CASE v.tag = "Null" -> "null"
      [] v.tag = "Integer" -> ToString(v.i)
      [] v.tag = "Boolean" -> (IF v.b THEN "true" ELSE "false")
      [] v.tag = "TaskReference" -> "<task " \o v.name \o ">"
      [] v.tag = "MagicTaskReference" -> "<task (magic) $out>"
      [] v.tag = "Array" -> "[ " \o JoinPrintable(v.items, 1) \o " ]"
      [] v.tag = "Range" ->
            to_printable_string(v.begin) \o " .. " \o to_printable_string(v.end)

(***************************************************************************)
(* The state.                                                              *)
(*   items            the parsed task definitions run_code has still to    *)
(*                    register, each [name, body, instances]               *)
(*   globals, tasks, next_task_id      the fields of struct Runtime        *)
(*   result_queue     the unbounded channel result_sender/result_receiver  *)
(*   phase            where run_code is: "register", "wired", "started",   *)
(*                    "joined", or "exited" once a task evaluated Exit     *)
(*   next_channel     the number of channels allocated so far; a channel   *)
(*                    is named by its allocation number                    *)
(*   wire_calls       the number of calls of create_task_channels          *)
(*   workers          per spawned thread (by position in tasks): its       *)
(*                    cloned task state, the evaluation stack, what it is  *)
(*                    blocked on and its result                            *)
(*   results, join_count, reports      the locals of join and the lines it *)
(*                    prints                                               *)
(*   stdout           the lines printed by sends to $out                   *)
(*   sent, received   history: per ordered pair <<from id, to id>> the     *)
(*                    values offered by sends and taken by receives        *)
(***************************************************************************)
VARIABLES items, globals, tasks, next_task_id, result_queue, phase,
          next_channel, wire_calls, workers, results, join_count, reports,
          stdout, sent, received, tokenizer, parser

vars == << items, globals, tasks, next_task_id, result_queue, phase,
           next_channel, wire_calls, workers, results, join_count, reports,
           stdout, sent, received,
          tokenizer, parser >>

\* The history keeps the first MaxLog values of every pair.
MaxLog == 3

\* create_task_channels is called at most MaxWireCalls times before start.
MaxWireCalls == 2

LogOf(log, pair) == IF pair \in DOMAIN log THEN log[pair] ELSE << >>

LogAppend(log, pair, v) ==
    IF Len(LogOf(log, pair)) < MaxLog
    THEN MapInsert(log, pair, Append(LogOf(log, pair), v))
    ELSE log

(***************************************************************************)
(* Runtime::add_task, add_one_task and take_task_id on a runtime record    *)
(* rt = [globals, tasks, next_task_id].                                    *)
(***************************************************************************)
\* Mutant of take_task_id: the counter is not advanced.
take_task_id_again(rt) == [id |-> rt.next_task_id, rt |-> rt]

take_task_id(rt) ==
    [id |-> rt.next_task_id, rt |-> [rt EXCEPT !.next_task_id = rt.next_task_id + 1]]

\* Mutant of add_one_task: the description of a frame is its plain name, not
\* its formatted name.
add_one_task_plain_description(rt, name, body, index) ==
    LET taken == take_task_id(rt)
        id == taken.id
        state == [name |-> name, id |-> id, index |-> index, locals |-> EmptyMap,
                  receivers |-> EmptyMap, senders |-> EmptyMap]
        fname == formatted_name(state.name, state.index)
    IN [id |-> id, name |-> fname,
        rt |-> [taken.rt EXCEPT
                  !.globals.task_descriptions_by_id =
                      MapInsert(taken.rt.globals.task_descriptions_by_id, id, name),
                  !.tasks = Append(taken.rt.tasks, [state |-> state, body |-> body])]]

add_one_task(rt, name, body, index) ==
    LET taken == take_task_id(rt)
        id == taken.id
        state == [name |-> name, id |-> id, index |-> index, locals |-> EmptyMap,
                  receivers |-> EmptyMap, senders |-> EmptyMap]
        fname == formatted_name(state.name, state.index)
    IN [id |-> id, name |-> fname,
        rt |-> [taken.rt EXCEPT
                  !.globals.task_descriptions_by_id =
                      MapInsert(taken.rt.globals.task_descriptions_by_id, id, fname),
                  !.tasks = Append(taken.rt.tasks, [state |-> state, body |-> body])]]

RECURSIVE AddInstances(_, _, _, _, _, _)

\* The loop of add_task over 0..instance_count-1, from i on; ids collects the
\* task references of the replicas.
AddInstances(rt, name, body, i, instance_count, ids) ==
    IF i >= instance_count THEN [rt |-> rt, ids |-> ids]
    ELSE LET one == add_one_task(rt, name, body, Some(i))
         IN AddInstances(one.rt, name, body, i + 1, instance_count,
                         Append(ids, TaskReference(one.id, one.name)))

\* Mutant of add_task: the array bound to a replicated name lists the replicas
\* from the last to the first.
add_task_last_replica_first(rt, name, body, instances) ==
    LET added ==
            IF instances # None
            THEN LET all == AddInstances(rt, name, body, 0, instances[1], << >>)
                 IN [rt |-> all.rt,
                     global_value |->
                         Array([i \in 1 .. Len(all.ids) |-> all.ids[Len(all.ids) + 1 - i]])]
            ELSE LET one == add_one_task(rt, name, body, None)
                 IN [rt |-> one.rt, global_value |-> TaskReference(one.id, one.name)]
    IN [added.rt EXCEPT !.globals.task_values_by_name =
            MapInsert(added.rt.globals.task_values_by_name, name, added.global_value)]

add_task(rt, name, body, instances) ==
    LET added ==
            IF instances # None
            THEN LET all == AddInstances(rt, name, body, 0, instances[1], << >>)
                 IN [rt |-> all.rt, global_value |-> Array(all.ids)]
            ELSE LET one == add_one_task(rt, name, body, None)
                 IN [rt |-> one.rt, global_value |-> TaskReference(one.id, one.name)]
    IN [added.rt EXCEPT !.globals.task_values_by_name =
            MapInsert(added.rt.globals.task_values_by_name, name, added.global_value)]

(***************************************************************************)
(* Runtime::create_task_channels.                                          *)
(***************************************************************************)
\* Mutant of partition_slice_mut: the subject itself is among the others.
partition_slice_whole(n, i) == [k \in 1 .. n |-> k]

\* partition_slice_mut: the positions left of i, then those right of i.
partition_slice_mut(n, i) ==
    [k \in 1 .. (n - 1) |-> IF k < i THEN k ELSE k + 1]

RECURSIVE WireOthers(_, _, _, _, _)

\* The inner loop for subject i over others from position k on: a fresh
\* channel per other task, its receiver stored in the other task under the
\* subject's id and its sender in the subject under the other's id.  (The
\* singleton set binds ts1 to the tasks after this iteration, computed once.)
WireOthers(ts, i, others, k, next) ==
    IF k > Len(others) THEN [tasks |-> ts, next |-> next]
    ELSE LET o == others[k]
             channel == next + 1
         IN CHOOSE wired \in
                { WireOthers(ts1, i, others, k + 1, channel) :
                    ts1 \in { [ts EXCEPT
                                 ![o].state.receivers =
                                     MapInsert(ts[o].state.receivers, ts[i].state.id, channel),
                                 ![i].state.senders =
                                     MapInsert(ts[i].state.senders, ts[o].state.id, channel)] } } :
                TRUE

RECURSIVE WireFrom(_, _, _)

\* The outer loop over the subjects from position i on.  (The singleton set
\* binds w to the outcome of the inner loop, computed once.)
WireFrom(ts, i, next) ==
    IF i > Len(ts) THEN [tasks |-> ts, next |-> next]
    ELSE CHOOSE wired \in
             { WireFrom(w.tasks, i + 1, w.next) :
                 w \in { WireOthers(ts, i, partition_slice_mut(Len(ts), i), 1, next) } } :
             TRUE

create_task_channels(ts, next) == WireFrom(ts, 1, next)

(***************************************************************************)
(* A worker thread evaluating its body (the closure spawned by start).     *)
(* TaskState::evaluate recurses through Body, If and While; the recursion  *)
(* is kept as a stack of frames, the innermost last:                       *)
(*   [k |-> "Body", node, i, result]   the loop of a Body at its i-th item *)
(*   [k |-> "While", node, i, result]  the loop of a While, before its     *)
(*                                     condition is evaluated              *)
(* status: "running", "sending" (blocked in Sender::send), "receiving"     *)
(* (blocked in Receiver::recv or Select::select), "evaluated" (evaluate    *)
(* has returned result), "finished" (the completion message is sent),      *)
(* "panicked" (the thread has unwound and sends nothing).                  *)
(* out_chan, out_to, out_value: the channel, the peer id and the value of   *)
(* the send the worker is blocked in (0, 0, Null otherwise); wait: the     *)
(* receivers, [from, chan], the worker is blocked on.                      *)
(***************************************************************************)
Idle(w) == [w EXCEPT !.out_chan = 0, !.out_to = 0, !.out_value = Null, !.wait = {}]

RECURSIVE Deliver(_, _)

\* The node under evaluation has the value v: a Body moves on to its next
\* item or, after its last, returns v to what evaluated it; a While keeps v
\* as its result and evaluates its condition again; with no frame left the
\* task's body has returned Ok(v).
Deliver(w, v) ==
    IF w.stack = << >> THEN [w EXCEPT !.status = "evaluated", !.result = Ok(v)]
    ELSE LET n == Len(w.stack)
             top == w.stack[n]
         IN IF top.k = "While" THEN [w EXCEPT !.stack[n].result = v]
            ELSE IF top.i < Len(top.node.items)
            THEN [w EXCEPT !.stack[n].result = v, !.stack[n].i = top.i + 1]
            ELSE Deliver([w EXCEPT !.stack = SubSeq(w.stack, 1, n - 1)], v)

\* evaluate on a Body: Null when it has no item.
EnterBody(w, node) ==
    IF node.items = << >> THEN Deliver(w, Null)
    ELSE [w EXCEPT !.stack = Append(w.stack, [k |-> "Body", node |-> node, i |-> 1,
                                              result |-> Null])]

\* The ? operator: evaluate returns the error through every frame.
Fail(w, result) == [Idle(w) EXCEPT !.status = "evaluated", !.result = result, !.stack = << >>]

\* A panic unwinds the thread.
Unwind(w) == [Idle(w) EXCEPT !.status = "panicked", !.stack = << >>]

\* An outcome of evaluate that ends the task's evaluation.
Abort(w, out) ==
    IF out.panic THEN Unwind([w EXCEPT !.task = out.st])
    ELSE Fail([w EXCEPT !.task = out.st], out.result)

Top(w) == w.stack[Len(w.stack)]

\* The statement a running worker is about to evaluate.
Current(w) == IF Top(w).k = "While" THEN Top(w).node ELSE Top(w).node.items[Top(w).i]

Pop(w) == [w EXCEPT !.stack = SubSeq(w.stack, 1, Len(w.stack) - 1)]

\* One step of a worker that does not communicate: the condition of the
\* innermost While, an If, the entry of a While, or an expression.
StepLocal(w, g, overflow_checks) ==
    LET top == Top(w)
        stmt == Current(w)
    IN IF top.k = "While"
       THEN LET cond == evaluate(w.task, stmt.condition, g, overflow_checks)
                w1 == [w EXCEPT !.task = cond.st]
            IN IF Failed(cond) THEN Abort(w, cond)
               ELSE IF ~is_truthy(cond.result.value) THEN Deliver(Pop(w1), top.result)
               ELSE EnterBody(w1, stmt.body)
       ELSE IF stmt.kind = "If"
       THEN LET cond == evaluate(w.task, stmt.condition, g, overflow_checks)
                w1 == [w EXCEPT !.task = cond.st]
            IN IF Failed(cond) THEN Abort(w, cond)
               ELSE IF is_truthy(cond.result.value) THEN EnterBody(w1, stmt.if_true)
               ELSE Deliver(w1, Null)
       ELSE IF stmt.kind = "While"
       THEN [w EXCEPT !.stack = Append(w.stack, [k |-> "While", node |-> stmt, i |-> 0,
                                                 result |-> Null])]
       ELSE LET out == evaluate(w.task, stmt, g, overflow_checks)
            IN IF Failed(out) THEN Abort(w, out)
               ELSE Deliver([w EXCEPT !.task = out.st], out.result.value)

\* A Send up to the point where it prints or blocks: the worker, and the
\* lines printed (a send to $out prints the value and yields Null).
StepSend(w, g, overflow_checks) ==
    LET stmt == Current(w)
        value == evaluate(w.task, stmt.value, g, overflow_checks)
    IN IF Failed(value) THEN [w |-> Abort(w, value), lines |-> << >>]
       ELSE LET channel == evaluate(value.st, stmt.channel, g, overflow_checks)
                w1 == [w EXCEPT !.task = channel.st]
            IN IF Failed(channel) THEN [w |-> Abort(w, channel), lines |-> << >>]
               ELSE IF channel.result.value.tag = "MagicTaskReference"
               THEN [w |-> Deliver(w1, Null),
                     lines |-> << to_printable_string(value.result.value) >>]
               ELSE LET other_task_id == get_task_id(channel.result.value)
                    IN IF ~other_task_id.ok
                       THEN [w |-> Fail(w1, other_task_id), lines |-> << >>]
                       ELSE LET task_sender == get_sender_to_task(w1.task, other_task_id.value)
                            IN IF ~task_sender.ok
                               THEN [w |-> Fail(w1, task_sender), lines |-> << >>]
                               ELSE [w |-> [w1 EXCEPT !.status = "sending",
                                                      !.out_chan = task_sender.value,
                                                      !.out_to = other_task_id.value,
                                                      !.out_value = value.result.value],
                                     lines |-> << >>]

\* The receivers a select-receive waits on: every entry of the task's table.
SelectOperations(st) ==
    {[from |-> id, chan |-> st.receivers[id]] : id \in DOMAIN st.receivers}

\* Mutant of StepReceive: a destination that is no Identifier fails the
\* Receive before it blocks.
StepReceiveCheckingTarget(w, g, overflow_checks) ==
    LET stmt == Current(w)
        receiving_from_val == evaluate(w.task, stmt.channel, g, overflow_checks)
        w1 == [w EXCEPT !.task = receiving_from_val.st]
    IN IF stmt.value.kind # "Identifier"
       THEN Fail(w, Err("expected identifier for result of assign"))
       ELSE IF Failed(receiving_from_val) THEN Abort(w, receiving_from_val)
       ELSE IF receiving_from_val.result.value.tag # "TaskReference"
       THEN Fail(w1, Err("tried to receive from non-channel"))
       ELSE LET id == receiving_from_val.result.value.id
                receiver == get_receiver_from_task(w1.task, id)
            IN IF ~receiver.ok THEN Fail(w1, receiver)
               ELSE [w1 EXCEPT !.status = "receiving",
                               !.wait = {[from |-> id, chan |-> receiver.value]}]

\* A directed Receive up to the point where it blocks in Receiver::recv.
StepReceive(w, g, overflow_checks) ==
    LET stmt == Current(w)
        receiving_from_val == evaluate(w.task, stmt.channel, g, overflow_checks)
        w1 == [w EXCEPT !.task = receiving_from_val.st]
    IN IF Failed(receiving_from_val) THEN Abort(w, receiving_from_val)
       ELSE IF receiving_from_val.result.value.tag # "TaskReference"
       THEN Fail(w1, Err("tried to receive from non-channel"))
       ELSE LET id == receiving_from_val.result.value.id
                receiver == get_receiver_from_task(w1.task, id)
            IN IF ~receiver.ok THEN Fail(w1, receiver)
               ELSE [w1 EXCEPT !.status = "receiving",
                               !.wait = {[from |-> id, chan |-> receiver.value]}]

\* Mutant of FinishReceive: the destination variable of a receive is set to
\* Null, whatever was sent.
FinishReceiveNull(w, from, received_value, g) ==
    LET stmt == Current(w)
        w1 == Idle([w EXCEPT !.status = "running"])
    IN IF stmt.bind_channel
       THEN LET st1 == create_or_assign_local(w1.task, stmt.channel.name,
                           TaskReference(from, g.task_descriptions_by_id[from]))
                st2 == create_or_assign_local(st1, stmt.value.name, Null)
            IN Deliver([w1 EXCEPT !.task = st2], Null)
       ELSE Deliver([w1 EXCEPT !.task = create_or_assign_local(w1.task, stmt.value.name,
                                                               Null)], Null)

\* The rest of a Receive once the value sent by the task `from` is taken.
FinishReceive(w, from, received_value, g) ==
    LET stmt == Current(w)
        w1 == Idle([w EXCEPT !.status = "running"])
    IN IF stmt.bind_channel
       THEN LET received_from_name == g.task_descriptions_by_id[from]
            IN IF stmt.value.kind # "Identifier"
               THEN Fail(w1, Err("expected identifier for result of assign"))
               ELSE IF stmt.channel.kind # "Identifier"
               THEN Fail(w1, Err("expected identifier to assign to as binding channel receiver"))
               ELSE LET st1 == create_or_assign_local(w1.task, stmt.channel.name,
                                   TaskReference(from, received_from_name))
                        st2 == create_or_assign_local(st1, stmt.value.name, received_value)
                    IN Deliver([w1 EXCEPT !.task = st2], Null)
       ELSE IF stmt.value.kind # "Identifier"
       THEN Fail(w1, Err("expected identifier for result of assign"))
       ELSE Deliver([w1 EXCEPT !.task = create_or_assign_local(w1.task, stmt.value.name,
                                                               received_value)], Null)

\* Mutant of FinishSend: the sender is not released once its value is taken.
FinishSendStillBlocked(w) == w

\* Sender::send returns Ok once the value is taken; the Send yields Null.
FinishSend(w) == Deliver(Idle([w EXCEPT !.status = "running"]), Null)

(***************************************************************************)
(* The tokenizer (tokenizer.rs).  The input is a sequence of characters,   *)
(* each a string of length one; `index` counts from 0 as in the source.    *)
(* "NUL" stands for the '\0' that this() and next() return past the end.   *)
(***************************************************************************)
\* char::is_alphabetic, on the letters of ASCII.
Letters ==
    {"a", "b", "c", "d", "e", "f", "g", "h", "i", "j", "k", "l", "m", "n", "o", "p", "q",
     "r", "s", "t", "u", "v", "w", "x", "y", "z", "A", "B", "C", "D", "E", "F", "G", "H",
     "I", "J", "K", "L", "M", "N", "O", "P", "Q", "R", "S", "T", "U", "V", "W", "X", "Y",
     "Z"}

\* char::is_ascii_digit (the domain), each digit with its value.
DigitValue ==
    ("0" :> 0) @@ ("1" :> 1) @@ ("2" :> 2) @@ ("3" :> 3) @@ ("4" :> 4) @@ ("5" :> 5)
        @@ ("6" :> 6) @@ ("7" :> 7) @@ ("8" :> 8) @@ ("9" :> 9)

\* Token::new(kind) for the kinds without a payload; IntegerLiteral carries
\* `int` and Identifier carries `id`.
Token(kind) == [kind |-> kind]

\* Tokenizer::new.  `panicked` records that the unwrap in tokenize has unwound.
Tokenizer(input) ==
    [input |-> input, index |-> 0, indent_level |-> 0, indent_size |-> 0,
     indent_format |-> "Spaces", tokens |-> << >>, errors |-> << >>, panicked |-> FALSE]

is_at_end(t) == t.index >= Len(t.input)

this(t) == IF is_at_end(t) THEN "NUL" ELSE t.input[t.index + 1]

next(t) == IF t.index + 1 >= Len(t.input) THEN "NUL" ELSE t.input[t.index + 2]

\* Tokenizer::advance and Parser::advance.
advance(t) == [t EXCEPT !.index = @ + 1]

\* self.tokens.push(token)
push_token(t, token) == [t EXCEPT !.tokens = Append(@, token)]

\* The loops `while <this is in class> { buffer.push(this); advance }`.
RECURSIVE TakeWhile(_, _, _)
TakeWhile(t, class, buffer) ==
    IF this(t) \in class
    THEN TakeWhile(advance(t), class, Append(buffer, this(t)))
    ELSE [buffer |-> buffer, t |-> t]

try_get_identifier(t) ==
    LET RECURSIVE Collect(_)
        Collect(buffer) ==
            IF buffer = << >> THEN "" ELSE Head(buffer) \o Collect(Tail(buffer))
    IN IF this(t) \in Letters \cup {"_", "$"}
       THEN LET taken == TakeWhile(advance(t), Letters \cup DOMAIN DigitValue \cup {"_"},
                                   << this(t) >>)
            IN [id |-> Some(Collect(taken.buffer)), t |-> taken.t]
       ELSE [id |-> None, t |-> t]

try_convert_to_keyword(s) ==
    CASE s = "task" -> Some("KwTask")
      [] s = "true" -> Some("KwTrue")
      [] s = "false" -> Some("KwFalse")
      [] s = "null" -> Some("KwNull")
      [] s = "if" -> Some("KwIf")
      [] s = "while" -> Some("KwWhile")
      [] s = "loop" -> Some("KwLoop")
      [] s = "exit" -> Some("KwExit")
      [] OTHER -> None

\* str::parse::<i64> on a buffer of an optional '-' and digits: None for a
\* buffer without a digit and for a value outside the integer width.
ParseInteger(buffer) ==
    LET RECURSIVE Magnitude(_, _)
        Magnitude(rest, acc) ==
            IF rest = << >> THEN acc
            ELSE Magnitude(Tail(rest), 10 * acc + DigitValue[Head(rest)])
        negative == buffer[1] = "-"
        digits == IF negative THEN Tail(buffer) ELSE buffer
        int == IF negative THEN -Magnitude(digits, 0) ELSE Magnitude(digits, 0)
    IN IF digits = << >> \/ int < MinInteger \/ int > MaxInteger THEN None ELSE Some(int)

consume_one_indentation(t) ==
    CASE this(t) = "\t" -> [format |-> Some("Tabs"), t |-> advance(t)]
      [] this(t) = " " -> [format |-> Some("Spaces"), t |-> advance(t)]
      [] OTHER -> [format |-> None, t |-> t]

\* Ok(level) is [ok |-> TRUE, level], Err(message) is [ok |-> FALSE, message].
RECURSIVE consume_all_indentation(_)
consume_all_indentation(t) ==
    LET RECURSIVE SkipEmptyLines(_)
        SkipEmptyLines(u) == IF this(u) = "\n" THEN SkipEmptyLines(advance(u)) ELSE u
        \* The loop, from the second indentation character on; `again` asks for
        \* the recursive call on the next line.
        RECURSIVE Loop(_, _, _)
        Loop(u, current_indent_size, set_indent_size) ==
            LET this_indent == consume_one_indentation(u)
                sized == IF set_indent_size
                         THEN [u EXCEPT !.indent_size = current_indent_size]
                         ELSE u
            IN IF this_indent.format = None
               THEN IF this(u) = "\n"
                    THEN [again |-> TRUE, ok |-> TRUE, level |-> 0, message |-> "",
                          t |-> advance(u)]
                    ELSE IF current_indent_size % sized.indent_size # 0
                         THEN [again |-> FALSE, ok |-> FALSE, level |-> 0,
                               message |-> "incomplete indentation", t |-> sized]
                         ELSE [again |-> FALSE, ok |-> TRUE,
                               level |-> current_indent_size \div sized.indent_size,
                               message |-> "", t |-> sized]
               ELSE IF this_indent.format[1] # u.indent_format
                    THEN [again |-> FALSE, ok |-> FALSE, level |-> 0,
                          message |-> "indentation mismatch", t |-> this_indent.t]
                    ELSE Loop(this_indent.t, current_indent_size + 1, set_indent_size)
        first == consume_one_indentation(SkipEmptyLines(t))
        given_format == first.format
    IN IF given_format = None
       THEN [ok |-> TRUE, level |-> 0, message |-> "", t |-> first.t]
       ELSE IF first.t.indent_size > 0 /\ first.t.indent_format # given_format[1]
            THEN [ok |-> FALSE, level |-> 0, message |-> "indentation format mismatch",
                  t |-> first.t]
            ELSE LET set_indent_size == first.t.indent_size = 0
                     formatted == IF set_indent_size
                                  THEN [first.t EXCEPT !.indent_format = given_format[1]]
                                  ELSE first.t
                     rest == Loop(formatted, 1, set_indent_size)
                 IN IF rest.again
                    THEN consume_all_indentation(rest.t)
                    ELSE [ok |-> rest.ok, level |-> rest.level, message |-> rest.message,
                          t |-> rest.t]

\* One iteration of the loop of tokenize.
TokenizeIteration(t) ==
    LET push_error(u, message) == [u EXCEPT !.errors = Append(@, message)]
        RECURSIVE SkipComment(_)
        SkipComment(u) == IF this(u) \notin {"\n", "NUL"} THEN SkipComment(advance(u)) ELSE u
        RECURSIVE PushDedents(_, _)
        PushDedents(u, n) ==
            IF n = 0 THEN u ELSE PushDedents(push_token(u, Token("Dedent")), n - 1)
        identifier == try_get_identifier(t)
        \* The branch for a newline.
        NewLine ==
            LET indentation ==
                    consume_all_indentation(advance(push_token(t, Token("NewLine"))))
                new_indent_level == indentation.level
                u == indentation.t
                emitted ==
                    CASE new_indent_level = u.indent_level + 1 ->
                            push_token(u, Token("Indent"))
                      [] new_indent_level < u.indent_level ->
                            PushDedents(u, u.indent_level - new_indent_level)
                      [] new_indent_level = u.indent_level -> u
                      [] OTHER -> push_error(u, "indentation increased too much")
            IN IF indentation.ok
               THEN [emitted EXCEPT !.indent_level = new_indent_level]
               ELSE push_error(u, indentation.message)
        \* The branch for a digit or '-': the unwrap panics when the buffer is
        \* no i64.
        Number ==
            LET taken == TakeWhile(advance(t), DOMAIN DigitValue, << this(t) >>)
                int == ParseInteger(taken.buffer)
            IN IF int = None
               THEN [taken.t EXCEPT !.panicked = TRUE]
               ELSE push_token(taken.t, [kind |-> "IntegerLiteral", int |-> int[1]])
        \* The last branch: the single-character cases.
        Single ==
            LET c == this(t)
            IN advance(
                CASE c = "?" -> push_token(t, Token("QuestionMark"))
                  [] c = "+" -> push_token(t, Token("Add"))
                  [] c = "-" -> push_token(t, Token("Subtract"))
                  [] c = "*" -> push_token(t, Token("Multiply"))
                  [] c = "/" -> push_token(t, Token("Divide"))
                  [] c = "(" -> push_token(t, Token("LeftParen"))
                  [] c = ")" -> push_token(t, Token("RightParen"))
                  [] c = "[" -> push_token(t, Token("LeftBrace"))
                  [] c = "]" -> push_token(t, Token("RightBrace"))
                  [] c = "," -> push_token(t, Token("Comma"))
                  [] c = "=" /\ next(t) = "=" -> push_token(advance(t), Token("Equals"))
                  [] c = "=" /\ next(t) # "=" -> push_token(t, Token("Assign"))
                  [] c = ">" -> push_token(t, Token("GreaterThan"))
                  [] c = "<" -> push_token(t, Token("LessThan"))
                  [] c = "." /\ next(t) = "." -> push_token(advance(t), Token("Range"))
                  [] OTHER -> push_error(t, "unexpected char " \o c))
    IN IF this(t) = "#" THEN SkipComment(advance(t))
       ELSE IF identifier.id # None
       THEN LET kw == try_convert_to_keyword(identifier.id[1])
            IN IF kw # None
               THEN push_token(identifier.t, Token(kw[1]))
               ELSE push_token(identifier.t,
                               [kind |-> "Identifier", id |-> identifier.id[1]])
       ELSE IF this(t) = "\n" THEN NewLine
       ELSE IF this(t) = "<" /\ next(t) = "-"
       THEN push_token(advance(advance(t)), Token("ReceiveArrow"))
       ELSE IF this(t) = "-" /\ next(t) = ">"
       THEN push_token(advance(advance(t)), Token("SendArrow"))
       ELSE IF this(t) \in DOMAIN DigitValue \/ this(t) = "-" THEN Number
       ELSE IF this(t) \in {" ", "\t", "\n", "\r"} THEN advance(t)
       ELSE Single

\* Parser::new.  `diverged` records that a loop of the parser can no longer
\* end: each further iteration only adds an error.
Parser(tokens) ==
    [tokens |-> tokens, index |-> 0, items |-> << >>, errors |-> << >>,
     diverged |-> FALSE]

(***************************************************************************)
(* The actions.                                                            *)
(***************************************************************************)
\* run_code: the next parsed task definition is registered.
AddTask ==
    /\ phase = "register"
    /\ items # << >>
    /\ LET item == Head(items)
           rt == add_task([globals |-> globals, tasks |-> tasks,
                           next_task_id |-> next_task_id],
                          item.name, item.body, item.instances)
       IN /\ globals' = rt.globals
          /\ tasks' = rt.tasks
          /\ next_task_id' = rt.next_task_id
    /\ items' = Tail(items)
    /\ UNCHANGED << result_queue, phase, next_channel, wire_calls, workers, results,
                    join_count, reports, stdout, sent, received, tokenizer, parser >>

\* run_code: create_task_channels, once every definition is registered.  The
\* method is public and not idempotent; a caller may run it again before start.
CreateTaskChannels ==
    /\ phase \in {"register", "wired"}
    /\ items = << >>
    /\ wire_calls < MaxWireCalls
    /\ LET wired == create_task_channels(tasks, next_channel)
       IN /\ tasks' = wired.tasks
          /\ next_channel' = wired.next
    /\ wire_calls' = wire_calls + 1
    /\ phase' = "wired"
    /\ UNCHANGED << items, globals, next_task_id, result_queue, workers, results,
                    join_count, reports, stdout, sent, received, tokenizer, parser >>

\* The thread start spawns for the task at position p: a clone of the task
\* state about to evaluate a clone of the body.
Spawned(p) ==
    EnterBody([status |-> "running", task |-> tasks[p].state,
               name |-> formatted_name(tasks[p].state.name, tasks[p].state.index),
               stack |-> << >>, out_chan |-> 0, out_to |-> 0, out_value |-> Null,
               wait |-> {}, result |-> Ok(Null)],
              tasks[p].body)

\* Mutant of Start: every task state is moved into its thread instead of
\* cloned, so that the runtime keeps no end of any channel.
StartMovingTasks ==
    /\ phase = "wired"
    /\ workers' = [p \in 1 .. Len(tasks) |-> Spawned(p)]
    /\ tasks' = [p \in 1 .. Len(tasks) |->
                    [tasks[p] EXCEPT !.state.senders = EmptyMap,
                                     !.state.receivers = EmptyMap]]
    /\ phase' = "started"
    /\ UNCHANGED << items, globals, next_task_id, result_queue, next_channel,
                    wire_calls, results, join_count, reports, stdout, sent, received,
                    tokenizer, parser >>

\* start: one thread per task; the task states stay in Runtime.tasks.
Start ==
    /\ phase = "wired"
    /\ workers' = [p \in 1 .. Len(tasks) |-> Spawned(p)]
    /\ phase' = "started"
    /\ UNCHANGED << items, globals, tasks, next_task_id, result_queue, next_channel,
                    wire_calls, results, join_count, reports, stdout, sent, received,
                    tokenizer, parser >>

Running(p) ==
    /\ phase = "started"
    /\ p \in DOMAIN workers
    /\ workers[p].status = "running"

\* The thread of the worker p still owns its clone of the task state; the
\* clone is dropped when the closure has returned or unwound.
Alive(p) == workers[p].status \notin {"finished", "panicked"}

\* The task states that exist: the originals in Runtime.tasks and the clones
\* owned by the threads that are alive.
TaskStates ==
    {tasks[q].state : q \in DOMAIN tasks}
        \cup {workers[q].task : q \in {x \in DOMAIN workers : Alive(x)}}

\* Some Receiver, or some Sender, of the channel exists: the channel is not
\* disconnected for a send, or for a receive.
ReceiverHeld(channel) ==
    \E st \in TaskStates : \E id \in DOMAIN st.receivers : st.receivers[id] = channel

SenderHeld(channel) ==
    \E st \in TaskStates : \E id \in DOMAIN st.senders : st.senders[id] = channel

WorkerLocal(p) ==
    /\ Running(p)
    /\ Current(workers[p]).kind \notin {"Send", "Receive", "Exit"}
    /\ \E overflow_checks \in BOOLEAN :
          workers' = [workers EXCEPT ![p] = StepLocal(workers[p], globals, overflow_checks)]
    /\ UNCHANGED << items, globals, tasks, next_task_id, result_queue, phase, next_channel,
                    wire_calls, results, join_count, reports, stdout, sent, received,
                    tokenizer, parser >>

\* Mutant of WorkerSend: a send to a task whose evaluation has ended fails
\* with a send error instead of blocking.
WorkerSendToLiveTask(p) ==
    /\ Running(p)
    /\ Current(workers[p]).kind = "Send"
    /\ \E overflow_checks \in BOOLEAN :
          LET step == StepSend(workers[p], globals, overflow_checks)
              ended == /\ step.w.status = "sending"
                       /\ \E q \in DOMAIN workers :
                             /\ workers[q].task.id = step.w.out_to
                             /\ workers[q].status \in {"evaluated", "finished"}
              w == IF ended THEN Fail(step.w, Err("send error")) ELSE step.w
          IN /\ workers' = [workers EXCEPT ![p] = w]
             /\ stdout' = stdout \o step.lines
             /\ sent' = IF w.status = "sending"
                        THEN LogAppend(sent, << w.task.id, w.out_to >>, w.out_value)
                        ELSE sent
    /\ UNCHANGED << items, globals, tasks, next_task_id, result_queue, phase, next_channel,
                    wire_calls, results, join_count, reports, received,
                    tokenizer, parser >>

WorkerSend(p) ==
    /\ Running(p)
    /\ Current(workers[p]).kind = "Send"
    /\ \E overflow_checks \in BOOLEAN :
          LET step == StepSend(workers[p], globals, overflow_checks)
              \* Sender::send fails at once on a channel without any Receiver.
              disconnected == step.w.status = "sending" /\ ~ReceiverHeld(step.w.out_chan)
          IN /\ workers' = [workers EXCEPT ![p] =
                               IF disconnected THEN Fail(step.w, Err("send error"))
                               ELSE step.w]
             /\ stdout' = stdout \o step.lines
             /\ sent' = IF step.w.status = "sending" /\ ~disconnected
                        THEN LogAppend(sent, << step.w.task.id, step.w.out_to >>,
                                       step.w.out_value)
                        ELSE sent
    /\ UNCHANGED << items, globals, tasks, next_task_id, result_queue, phase, next_channel,
                    wire_calls, results, join_count, reports, received,
                    tokenizer, parser >>

WorkerReceive(p) ==
    /\ Running(p)
    /\ Current(workers[p]).kind = "Receive"
    /\ ~Current(workers[p]).bind_channel
    /\ \E overflow_checks \in BOOLEAN :
          LET w == StepReceive(workers[p], globals, overflow_checks)
              \* Receiver::recv fails at once on a channel without any Sender.
              disconnected == /\ w.status = "receiving"
                              /\ \E operation \in w.wait : ~SenderHeld(operation.chan)
          IN workers' = [workers EXCEPT ![p] =
                            IF disconnected THEN Fail(w, Err("receive error")) ELSE w]
    /\ UNCHANGED << items, globals, tasks, next_task_id, result_queue, phase, next_channel,
                    wire_calls, results, join_count, reports, stdout, sent, received,
                    tokenizer, parser >>

\* Mutant of WorkerSelect: a select over no receiver at all yields Null at once.
WorkerSelectNothing(p) ==
    /\ Running(p)
    /\ Current(workers[p]).kind = "Receive"
    /\ Current(workers[p]).bind_channel
    /\ LET ids_and_receivers == SelectOperations(workers[p].task)
       IN workers' = [workers EXCEPT ![p] =
                         IF ids_and_receivers = {} THEN Deliver(workers[p], Null)
                         ELSE [workers[p] EXCEPT !.status = "receiving",
                                                 !.wait = ids_and_receivers]]
    /\ UNCHANGED << items, globals, tasks, next_task_id, result_queue, phase, next_channel,
                    wire_calls, results, join_count, reports, stdout, sent, received,
                    tokenizer, parser >>

\* A select-receive registers every receiver of the task with a Select and
\* blocks in Select::select.  With no receiver at all the call never selects
\* anything: depending on the channel library it panics or waits forever.
WorkerSelect(p) ==
    /\ Running(p)
    /\ Current(workers[p]).kind = "Receive"
    /\ Current(workers[p]).bind_channel
    /\ LET ids_and_receivers == SelectOperations(workers[p].task)
       IN \E outcome \in {"receiving", "panicked"} :
             /\ ids_and_receivers # {} => outcome = "receiving"
             /\ workers' = [workers EXCEPT ![p] =
                               IF outcome = "panicked" THEN Unwind(workers[p])
                               ELSE [workers[p] EXCEPT !.status = "receiving",
                                                       !.wait = ids_and_receivers]]
    /\ UNCHANGED << items, globals, tasks, next_task_id, result_queue, phase, next_channel,
                    wire_calls, results, join_count, reports, stdout, sent, received,
                    tokenizer, parser >>

\* Mutant of Ready: a send makes every receiver of r ready, whatever channel
\* it is on.
ReadyOnAnyChannel(r, s) == workers[r].wait

\* The operations of the receiving worker r that the sending worker s makes
\* ready: the receivers on the channel s is blocked on.
Ready(r, s) == {e \in workers[r].wait : e.chan = workers[s].out_chan}

\* Mutant of Rendezvous: of the senders that are ready, a select always takes
\* the one that comes first in the task list.
RendezvousFirstReady(r, s) ==
    /\ phase = "started"
    /\ r \in DOMAIN workers /\ s \in DOMAIN workers
    /\ workers[r].status = "receiving"
    /\ workers[s].status = "sending"
    /\ \A q \in DOMAIN workers :
          q < s => ~(workers[q].status = "sending" /\ Ready(r, q) # {})
    /\ \E e \in Ready(r, s) :
          /\ workers' = [workers EXCEPT
                           ![r] = FinishReceive(workers[r], e.from, workers[s].out_value,
                                                globals),
                           ![s] = FinishSend(workers[s])]
          /\ received' = LogAppend(received, << e.from, workers[r].task.id >>,
                                   workers[s].out_value)
    /\ UNCHANGED << items, globals, tasks, next_task_id, result_queue, phase, next_channel,
                    wire_calls, results, join_count, reports, stdout, sent,
                    tokenizer, parser >>

\* The rendezvous on a bounded(0) channel: the receiver blocked in recv or
\* select takes the value of the sender blocked in send; both return.
Rendezvous(r, s) ==
    /\ phase = "started"
    /\ r \in DOMAIN workers /\ s \in DOMAIN workers
    /\ workers[r].status = "receiving"
    /\ workers[s].status = "sending"
    /\ \E e \in Ready(r, s) :
          /\ workers' = [workers EXCEPT
                           ![r] = FinishReceive(workers[r], e.from, workers[s].out_value,
                                                globals),
                           ![s] = FinishSend(workers[s])]
          /\ received' = LogAppend(received, << e.from, workers[r].task.id >>,
                                   workers[s].out_value)
    /\ UNCHANGED << items, globals, tasks, next_task_id, result_queue, phase, next_channel,
                    wire_calls, results, join_count, reports, stdout, sent,
                    tokenizer, parser >>

\* The worker's closure sends (id, formatted name, result) on result_sender.
WorkerComplete(p) ==
    /\ phase = "started"
    /\ p \in DOMAIN workers
    /\ workers[p].status = "evaluated"
    /\ result_queue' = Append(result_queue, [id |-> workers[p].task.id,
                                             name |-> workers[p].name,
                                             result |-> workers[p].result])
    /\ workers' = [workers EXCEPT ![p].status = "finished"]
    /\ UNCHANGED << items, globals, tasks, next_task_id, phase, next_channel, wire_calls,
                    results, join_count, reports, stdout, sent, received,
                    tokenizer, parser >>

\* Mutant of WorkerExit: Exit ends the evaluation of its own frame only, with
\* the value Null.
WorkerExitThreadOnly(p) ==
    /\ Running(p)
    /\ Current(workers[p]).kind = "Exit"
    /\ workers' = [workers EXCEPT ![p] = Deliver(workers[p], Null)]
    /\ UNCHANGED << items, globals, tasks, next_task_id, result_queue, phase, next_channel,
                    wire_calls, results, join_count, reports, stdout, sent, received,
                    tokenizer, parser >>

\* NodeKind::Exit: exit(0) ends the process.
WorkerExit(p) ==
    /\ Running(p)
    /\ Current(workers[p]).kind = "Exit"
    /\ phase' = "exited"
    /\ UNCHANGED << items, globals, tasks, next_task_id, result_queue, next_channel,
                    wire_calls, workers, results, join_count, reports, stdout, sent,
                    received, tokenizer, parser >>

\* Mutant of JoinReceive: join gives up at the first error result.
JoinReceiveUntilError ==
    /\ phase = "started"
    /\ join_count < Len(tasks)
    /\ result_queue # << >>
    /\ LET message == Head(result_queue)
       IN /\ reports' = Append(reports, [name |-> message.name, ok |-> message.result.ok])
          /\ results' = MapInsert(results, message.name, message.result)
          /\ phase' = IF message.result.ok THEN phase ELSE "joined"
    /\ result_queue' = Tail(result_queue)
    /\ join_count' = join_count + 1
    /\ UNCHANGED << items, globals, tasks, next_task_id, next_channel, wire_calls,
                    workers, stdout, sent, received, tokenizer, parser >>

\* One iteration of join's loop: a completion message is received, reported
\* and inserted under the formatted name.
JoinReceive ==
    /\ phase = "started"
    /\ join_count < Len(tasks)
    /\ result_queue # << >>
    /\ LET message == Head(result_queue)
       IN /\ reports' = Append(reports, [name |-> message.name, ok |-> message.result.ok])
          /\ results' = MapInsert(results, message.name, message.result)
    /\ result_queue' = Tail(result_queue)
    /\ join_count' = join_count + 1
    /\ UNCHANGED << items, globals, tasks, next_task_id, phase, next_channel, wire_calls,
                    workers, stdout, sent, received, tokenizer, parser >>

\* Mutant of JoinReturn: join also returns once every frame that has not
\* completed is blocked and no two of them can be paired.
JoinReturnOnDeadlock ==
    /\ phase = "started"
    /\ \/ join_count = Len(tasks)
       \/ /\ result_queue = << >>
          /\ \A p \in DOMAIN workers :
                workers[p].status \in {"finished", "sending", "receiving"}
          /\ \A r \in DOMAIN workers : \A s \in DOMAIN workers :
                (workers[r].status = "receiving" /\ workers[s].status = "sending") =>
                    Ready(r, s) = {}
    /\ phase' = "joined"
    /\ UNCHANGED << items, globals, tasks, next_task_id, result_queue, next_channel,
                    wire_calls, workers, results, join_count, reports, stdout, sent,
                    received, tokenizer, parser >>

\* join returns results after as many messages as there are tasks.
JoinReturn ==
    /\ phase = "started"
    /\ join_count = Len(tasks)
    /\ phase' = "joined"
    /\ UNCHANGED << items, globals, tasks, next_task_id, result_queue, next_channel,
                    wire_calls, workers, results, join_count, reports, stdout, sent,
                    received, tokenizer, parser >>

(***************************************************************************)
(* The programs: what the parser hands to run_code.  A task definition is  *)
(* [name, body, instances] (node.rs, ItemKind::TaskDefinition).            *)
(***************************************************************************)
TaskDefinition(name, body, instances) ==
    [name |-> name, body |-> body, instances |-> instances]

\* task A: 1 -> B; 2 -> B
SendTwice ==
    TaskDefinition("A", Body(<< Send(IntegerLiteral(1), Identifier("B")),
                                Send(IntegerLiteral(2), Identifier("B")) >>), None)

\* task B: x <- A; y <- A; x - y
ReceiveTwice ==
    TaskDefinition("B", Body(<< Receive(Identifier("x"), Identifier("A"), FALSE),
                                Receive(Identifier("y"), Identifier("A"), FALSE),
                                BinaryOperation(Identifier("x"), "Subtract",
                                                Identifier("y")) >>), None)

\* task B: v <- ?src; v -> src        (tests/basic.rs, Bounce)
Bounce ==
    TaskDefinition("B", Body(<< Receive(Identifier("v"), Identifier("src"), TRUE),
                                Send(Identifier("v"), Identifier("src")) >>), None)

\* task A: 7 -> B; r <- B; r
RoundTrip ==
    TaskDefinition("A", Body(<< Send(IntegerLiteral(7), Identifier("B")),
                                Receive(Identifier("r"), Identifier("B"), FALSE),
                                Identifier("r") >>), None)

\* task A[2]: $index -> B; $index + 2 -> B     (tests/multi_tasks.rs, ConstantSource)
Replicas ==
    TaskDefinition("A", Body(<< Send(Identifier("$index"), Identifier("B")),
                                Send(BinaryOperation(Identifier("$index"), "Add",
                                                     IntegerLiteral(2)),
                                     Identifier("B")) >>), Some(2))

\* task B: v <- ?v; w <- ?src; u <- ?src; w
\* (three select-receives, the first naming one variable twice)
SelectThrice ==
    TaskDefinition("B", Body(<< Receive(Identifier("v"), Identifier("v"), TRUE),
                                Receive(Identifier("w"), Identifier("src"), TRUE),
                                Receive(Identifier("u"), Identifier("src"), TRUE),
                                Identifier("w") >>), None)

\* task A: 1 / 0
DivideByZero ==
    TaskDefinition("A", Body(<< BinaryOperation(IntegerLiteral(1), "Divide",
                                                IntegerLiteral(0)) >>), None)

\* task B: if 0 < 1 then (true + 1)    (a non-integer operand)
BadOperand ==
    TaskDefinition("B", Body(<< If(BinaryOperation(IntegerLiteral(0), "LessThan",
                                                   IntegerLiteral(1)),
                                   Body(<< BinaryOperation(BooleanLiteral(TRUE), "Add",
                                                           IntegerLiteral(1)) >>)) >>),
                   None)

\* task A: [ 1 ][5]
BadIndex ==
    TaskDefinition("A", Body(<< Index(ArrayLiteral(<< IntegerLiteral(1) >>),
                                      IntegerLiteral(5)) >>), None)

\* task B: 1 -> 2
BadChannel ==
    TaskDefinition("B", Body(<< Send(IntegerLiteral(1), IntegerLiteral(2)) >>), None)

\* task B: x = 3; x                   (tests/basic.rs, test_assign)
AssignLocal ==
    TaskDefinition("B", Body(<< Assign(Identifier("x"), IntegerLiteral(3)),
                                Identifier("x") >>), None)

\* task A: i = 0; while i < 2: (i -> $out; i = i + 1); exit
CountAndExit ==
    TaskDefinition("A", Body(<< Assign(Identifier("i"), IntegerLiteral(0)),
                                While(BinaryOperation(Identifier("i"), "LessThan",
                                                      IntegerLiteral(2)),
                                      Body(<< Send(Identifier("i"), Identifier("$out")),
                                              Assign(Identifier("i"),
                                                     BinaryOperation(Identifier("i"), "Add",
                                                                     IntegerLiteral(1))) >>)),
                                Exit >>), None)

TaskDefinitions ==
    { SendTwice, ReceiveTwice, Bounce, RoundTrip, Replicas, SelectThrice, DivideByZero,
      BadOperand, BadIndex, BadChannel, AssignLocal, CountAndExit }

\* A program has at most MaxDefinitions task definitions.
MaxDefinitions == 2

RECURSIVE ProgramsOfLength(_)

ProgramsOfLength(n) ==
    IF n = 0 THEN { << >> }
    ELSE { Append(prog, d) : prog \in ProgramsOfLength(n - 1), d \in TaskDefinitions }

Programs == UNION { ProgramsOfLength(n) : n \in 1 .. MaxDefinitions }

\* Runtime::new, with the parsed program still to register.
InitRuntime ==
    /\ globals = [task_values_by_name |-> EmptyMap, task_descriptions_by_id |-> EmptyMap]
    /\ tasks = << >>
    /\ next_task_id = 1
    /\ result_queue = << >>
    /\ phase = "register"
    /\ next_channel = 0
    /\ wire_calls = 0
    /\ workers = << >>
    /\ results = EmptyMap
    /\ join_count = 0
    /\ reports = << >>
    /\ stdout = << >>
    /\ sent = EmptyMap
    /\ received = EmptyMap
    /\ tokenizer = Tokenizer(<< >>)
    /\ parser = Parser(<< >>)

Init ==
    /\ items \in Programs
    /\ InitRuntime

Next ==
    \/ AddTask
    \/ CreateTaskChannels
    \/ Start
    \/ \E p \in DOMAIN workers : WorkerLocal(p)
    \/ \E p \in DOMAIN workers : WorkerSend(p)
    \/ \E p \in DOMAIN workers : WorkerReceive(p)
    \/ \E p \in DOMAIN workers : WorkerSelect(p)
    \/ \E r \in DOMAIN workers : \E s \in DOMAIN workers : Rendezvous(r, s)
    \/ \E p \in DOMAIN workers : WorkerComplete(p)
    \/ \E p \in DOMAIN workers : WorkerExit(p)
    \/ JoinReceive
    \/ JoinReturn

Spec == Init /\ [][Next]_vars

(***************************************************************************)
(* Two peers that send to one receiver for ever, the receiver taking the   *)
(* values by select-receive for ever:                                      *)
(*     task A[2]                                                           *)
(*         loop                                                            *)
(*             $index -> B                                                 *)
(*     task B                                                              *)
(*         loop                                                            *)
(*             v <- ?src                                                   *)
(* Every thread that can take a step eventually does (weak fairness of the *)
(* steps of each worker and of run_code).  Select::select picks at random  *)
(* among the operations that are ready, so a send that is ready again and  *)
(* again whenever the receiver selects is eventually the one picked        *)
(* (strong fairness of each pairing).                                      *)
(***************************************************************************)
SendForever ==
    TaskDefinition("A", Body(<< While(BooleanLiteral(TRUE),
                                      Body(<< Send(Identifier("$index"),
                                                   Identifier("B")) >>)) >>), Some(2))

SelectForever ==
    TaskDefinition("B", Body(<< While(BooleanLiteral(TRUE),
                                      Body(<< Receive(Identifier("v"), Identifier("src"),
                                                      TRUE) >>)) >>), None)

SelectLoopProgram == << SendForever, SelectForever >>

\* The positions of the frames of SelectLoopProgram: A[0], A[1] and B.
SelectLoopFrames == 1 .. Len(SelectLoopProgram) + 1

InitSelectLoop ==
    /\ items = SelectLoopProgram
    /\ InitRuntime

NextSelectLoop ==
    \/ AddTask
    \/ CreateTaskChannels
    \/ Start
    \/ \E p \in DOMAIN workers : WorkerLocal(p)
    \/ \E p \in DOMAIN workers : WorkerSend(p)
    \/ \E p \in DOMAIN workers : WorkerSelect(p)
    \/ \E r \in DOMAIN workers : \E s \in DOMAIN workers : Rendezvous(r, s)

FairSelectLoop ==
    /\ InitSelectLoop
    /\ [][NextSelectLoop]_vars
    /\ WF_vars(AddTask)
    /\ WF_vars(CreateTaskChannels)
    /\ WF_vars(Start)
    /\ \A p \in SelectLoopFrames :
          WF_vars(WorkerLocal(p)) /\ WF_vars(WorkerSend(p)) /\ WF_vars(WorkerSelect(p))
    /\ \A r \in SelectLoopFrames : \A s \in SelectLoopFrames : SF_vars(Rendezvous(r, s))

(***************************************************************************)
(* The seed scenarios: whole programs, run from registration to join under *)
(* every interleaving.                                                     *)
(***************************************************************************)
\* A replicated definition has at most MaxInstances replicas.
MaxInstances == 2

\* task ConstantSource[k]: $index -> Main          (tests/multi_tasks.rs)
ConstantSource(k) ==
    TaskDefinition("ConstantSource",
                   Body(<< Send(Identifier("$index"), Identifier("Main")) >>), Some(k))

\* task Main: total = 0; i = 0;
\*            while i < k: (x <- ConstantSource[i]; total = total + x; i = i + 1);
\*            total
Main(k) ==
    TaskDefinition("Main",
        Body(<< Assign(Identifier("total"), IntegerLiteral(0)),
                Assign(Identifier("i"), IntegerLiteral(0)),
                While(BinaryOperation(Identifier("i"), "LessThan", IntegerLiteral(k)),
                      Body(<< Receive(Identifier("x"),
                                      Index(Identifier("ConstantSource"), Identifier("i")),
                                      FALSE),
                              Assign(Identifier("total"),
                                     BinaryOperation(Identifier("total"), "Add",
                                                     Identifier("x"))),
                              Assign(Identifier("i"),
                                     BinaryOperation(Identifier("i"), "Add",
                                                     IntegerLiteral(1))) >>)),
                Identifier("total") >>), None)

ReplicaFanIn(k) == << ConstantSource(k), Main(k) >>

\* $index = 5; $out = 6; $index -> $out; $index
MagicNamesBody ==
    Body(<< Assign(Identifier("$index"), IntegerLiteral(5)),
            Assign(Identifier("$out"), IntegerLiteral(6)),
            Send(Identifier("$index"), Identifier("$out")),
            Identifier("$index") >>)

\* task M[2] and task P with the body above: a replicated and a plain frame
\* that assign to the magic names.
MagicNamesReplicated == << TaskDefinition("M", MagicNamesBody, Some(2)) >>

\* task U: zz                 (a name that is bound nowhere)
UnknownName == TaskDefinition("U", Body(<< Identifier("zz") >>), None)

MagicNamesPlain == << TaskDefinition("P", MagicNamesBody, None), UnknownName >>

\* task A: before = B; B = 3; [ before, B ]      with a task B registered
ShadowTask ==
    TaskDefinition("A", Body(<< Assign(Identifier("before"), Identifier("B")),
                                Assign(Identifier("B"), IntegerLiteral(3)),
                                ArrayLiteral(<< Identifier("before"),
                                                Identifier("B") >>) >>), None)

ShadowProgram == << ShadowTask, AssignLocal >>

\* Scenario 6.  task A: 1 -> C    task B: 2 -> C    task C: v <- ?src; v -> src
SelectBindsPeer ==
    << TaskDefinition("A", Body(<< Send(IntegerLiteral(1), Identifier("C")) >>), None),
       TaskDefinition("B", Body(<< Send(IntegerLiteral(2), Identifier("C")) >>), None),
       TaskDefinition("C", Body(<< Receive(Identifier("v"), Identifier("src"), TRUE),
                                   Send(Identifier("v"), Identifier("src")) >>), None) >>

\* The values a task bounces: literals of every kind.
BouncedLiterals ==
    { IntegerLiteral(6), IntegerLiteral(MinInteger), BooleanLiteral(FALSE), NullLiteral,
      ArrayLiteral(<< IntegerLiteral(1), NullLiteral >>) }

\* task Bounce: x <- ?c; x -> c                     (tests/basic.rs, test_precedence)
BounceOnce ==
    TaskDefinition("Bounce", Body(<< Receive(Identifier("x"), Identifier("c"), TRUE),
                                     Send(Identifier("x"), Identifier("c")) >>), None)

\* task X: v -> Bounce; y <- Bounce; y
BounceCaller(v) ==
    TaskDefinition("X", Body(<< Send(v, Identifier("Bounce")),
                                Receive(Identifier("y"), Identifier("Bounce"), FALSE),
                                Identifier("y") >>), None)

BouncePair(v) == << BounceOnce, BounceCaller(v) >>

\* Scenario 4.  task Bouncer: while true: (a <- ?c; a -> c)
\*              task Main: v -> Bouncer; x <- Bouncer; x; exit
BouncerLoop(v) ==
    << TaskDefinition("Bouncer",
                      Body(<< While(BooleanLiteral(TRUE),
                                    Body(<< Receive(Identifier("a"), Identifier("c"), TRUE),
                                            Send(Identifier("a"), Identifier("c")) >>)) >>),
                      None),
       TaskDefinition("Main", Body(<< Send(v, Identifier("Bouncer")),
                                      Receive(Identifier("x"), Identifier("Bouncer"), FALSE),
                                      Identifier("x"),
                                      Exit >>), None) >>

\* task A: 1 -> A             task B: x <- B
SelfAddressed ==
    << TaskDefinition("A", Body(<< Send(IntegerLiteral(1), Identifier("A")) >>), None),
       TaskDefinition("B", Body(<< Receive(Identifier("x"), Identifier("B"), FALSE) >>),
                      None) >>

\* task R[2]: if $index == 0 then ($index -> R[$index]); x <- R[$index]
SelfAddressedReplicas ==
    << TaskDefinition("R",
           Body(<< If(BinaryOperation(Identifier("$index"), "Equals", IntegerLiteral(0)),
                      Body(<< Send(Identifier("$index"),
                                   Index(Identifier("R"), Identifier("$index"))) >>)),
                   Receive(Identifier("x"), Index(Identifier("R"), Identifier("$index")),
                           FALSE) >>), Some(2)) >>

\* task A: 1             task B: 2 -> A             task C: x <- A
TerminatedPeer ==
    << TaskDefinition("A", Body(<< IntegerLiteral(1) >>), None),
       TaskDefinition("B", Body(<< Send(IntegerLiteral(2), Identifier("A")) >>), None),
       TaskDefinition("C", Body(<< Receive(Identifier("x"), Identifier("A"), FALSE) >>),
                      None) >>

Scenarios ==
    { ReplicaFanIn(k) : k \in 1 .. MaxInstances }
        \cup { BouncePair(v) : v \in BouncedLiterals }
        \cup { BouncerLoop(v) : v \in BouncedLiterals }
        \cup { MagicNamesReplicated, MagicNamesPlain, ShadowProgram, SelectBindsPeer,
               SelfAddressed, SelfAddressedReplicas, TerminatedPeer }

InitScenarios ==
    /\ items \in Scenarios
    /\ InitRuntime

ScenarioSpec == InitScenarios /\ [][Next]_vars

\* The scenarios whose every run ends: by join returning, or by an Exit.
EndingScenarios ==
    { ReplicaFanIn(k) : k \in 1 .. MaxInstances }
        \cup { BouncePair(v) : v \in BouncedLiterals }
        \cup { BouncerLoop(v) : v \in BouncedLiterals }

InitEndingScenarios ==
    /\ items \in EndingScenarios
    /\ InitRuntime

\* The process does not stop while one of its threads can take a step (weak
\* fairness of Next).
FairScenarioSpec == InitEndingScenarios /\ [][Next]_vars /\ WF_vars(Next)

(***************************************************************************)
(* Arithmetic: programs of one task whose body is one expression over      *)
(* integer literals (tests/utils.rs, run_one_expression), for all operands *)
(* of the integer width.                                                   *)
(***************************************************************************)
Integers64 == MinInteger .. MaxInteger

\* task X: a op b
BinaryOfLiterals(a, op, b) ==
    << TaskDefinition("X", Body(<< BinaryOperation(IntegerLiteral(a), op,
                                                   IntegerLiteral(b)) >>), None) >>

\* task X: (a + b) * b / b
WrapIdentity(a, b) ==
    << TaskDefinition("X",
           Body(<< BinaryOperation(
                       BinaryOperation(
                           BinaryOperation(IntegerLiteral(a), "Add", IntegerLiteral(b)),
                           "Multiply", IntegerLiteral(b)),
                       "Divide", IntegerLiteral(b)) >>), None) >>

ArithmeticPrograms ==
    { BinaryOfLiterals(a, op, b) :
          a \in Integers64, op \in {"Add", "Subtract", "Multiply", "Divide"}, b \in Integers64 }
        \cup { WrapIdentity(a, b) : a \in Integers64, b \in Integers64 \ {0} }

InitArithmetic ==
    /\ items \in ArithmeticPrograms
    /\ InitRuntime

NextArithmetic ==
    \/ AddTask
    \/ CreateTaskChannels
    \/ Start
    \/ \E p \in DOMAIN workers : WorkerLocal(p)
    \/ \E p \in DOMAIN workers : WorkerComplete(p)
    \/ JoinReceive
    \/ JoinReturn

ArithmeticSpec == InitArithmetic /\ [][NextArithmetic]_vars

(***************************************************************************)
(* Indexing: programs of one task whose body is one Index expression, an   *)
(* array literal of every length up to MaxArrayLen indexed by every        *)
(* integer, and by every range of two integers.                            *)
(***************************************************************************)
MaxArrayLen == 4

\* [ 1, 2, ..., n ]
ArrayOfLength(n) == ArrayLiteral([k \in 1 .. n |-> IntegerLiteral(k)])

\* task X: [ 1, ..., n ][i]
IndexByInteger(n, i) ==
    << TaskDefinition("X", Body(<< Index(ArrayOfLength(n), IntegerLiteral(i)) >>), None) >>

\* task X: [ 1, ..., n ][b .. e]
IndexByRange(n, b, e) ==
    << TaskDefinition("X", Body(<< Index(ArrayOfLength(n),
                                         RangeNode(IntegerLiteral(b), IntegerLiteral(e))) >>),
                      None) >>

IndexPrograms ==
    { IndexByInteger(n, i) : n \in 0 .. MaxArrayLen, i \in Integers64 }
        \cup { IndexByRange(n, b, e) : n \in 0 .. MaxArrayLen, b \in Integers64, e \in Integers64 }

InitIndexing ==
    /\ items \in IndexPrograms
    /\ InitRuntime

IndexSpec == InitIndexing /\ [][NextArithmetic]_vars

(***************************************************************************)
(* Statements: programs of one task X that test a condition or assign, for *)
(* a condition of every kind of value and for every form of destination.   *)
(***************************************************************************)
\* null, false, true, 0, 1, [], [false], 0..0, X (the task itself), $out
Conditions ==
    { NullLiteral, BooleanLiteral(FALSE), BooleanLiteral(TRUE), IntegerLiteral(0),
      IntegerLiteral(1), ArrayLiteral(<< >>), ArrayLiteral(<< BooleanLiteral(FALSE) >>),
      RangeNode(IntegerLiteral(0), IntegerLiteral(0)), Identifier("X"), Identifier("$out") }

\* task X: if c then 5
IfThen(c) ==
    << TaskDefinition("X", Body(<< If(c, Body(<< IntegerLiteral(5) >>)) >>), None) >>

\* task X: cs = [c, d, null]; i = 0; while cs[i]: (i = i + 1; i)
WhileCounting(c, d) ==
    << TaskDefinition("X",
           Body(<< Assign(Identifier("cs"), ArrayLiteral(<< c, d, NullLiteral >>)),
                   Assign(Identifier("i"), IntegerLiteral(0)),
                   While(Index(Identifier("cs"), Identifier("i")),
                         Body(<< Assign(Identifier("i"),
                                        BinaryOperation(Identifier("i"), "Add",
                                                        IntegerLiteral(1))),
                                 Identifier("i") >>)) >>), None) >>

\* a, c (identifiers), 3, [], a = b (the forms a destination can take)
Destinations ==
    { Identifier("a"), Identifier("c"), IntegerLiteral(3), ArrayLiteral(<< >>),
      Assign(Identifier("a"), Identifier("b")) }

\* 7, null, b, (c = 1)
AssignedValues ==
    { IntegerLiteral(7), NullLiteral, Identifier("b"),
      Assign(Identifier("c"), IntegerLiteral(1)) }

\* task X: a = 1; b = 2; destination = value
AssignTo(destination, value) ==
    << TaskDefinition("X", Body(<< Assign(Identifier("a"), IntegerLiteral(1)),
                                   Assign(Identifier("b"), IntegerLiteral(2)),
                                   Assign(destination, value) >>), None) >>

StatementPrograms ==
    { IfThen(c) : c \in Conditions }
        \cup { WhileCounting(c, d) : c \in Conditions, d \in Conditions }
        \cup { AssignTo(destination, value) :
                   destination \in Destinations, value \in AssignedValues }

InitStatements ==
    /\ items \in StatementPrograms
    /\ InitRuntime

StatementSpec == InitStatements /\ [][NextArithmetic]_vars

(***************************************************************************)
(* Receives: a frame that receives from two peers in a fixed order, and a  *)
(* frame whose receive has a well-formed or a malformed target.            *)
(***************************************************************************)
\* task R: x <- U; y <- V; [x, y]        task U: u -> R        task V: v -> R
DirectedPair(u, v) ==
    << TaskDefinition("R", Body(<< Receive(Identifier("x"), Identifier("U"), FALSE),
                                   Receive(Identifier("y"), Identifier("V"), FALSE),
                                   ArrayLiteral(<< Identifier("x"), Identifier("y") >>) >>),
                      None),
       TaskDefinition("U", Body(<< Send(IntegerLiteral(u), Identifier("R")) >>), None),
       TaskDefinition("V", Body(<< Send(IntegerLiteral(v), Identifier("R")) >>), None) >>

\* task S: 1 -> R; 7        task R: value <- channel (or value <- ?channel); 6
ReceiveInto(value, channel, bind_channel) ==
    << TaskDefinition("S", Body(<< Send(IntegerLiteral(1), Identifier("R")),
                                   IntegerLiteral(7) >>), None),
       TaskDefinition("R", Body(<< Receive(value, channel, bind_channel),
                                   IntegerLiteral(6) >>), None) >>

\* x <- S, x <- ?c, and the malformed 3 <- S, 3 <- ?c, x <- ?3
ReceiveTargets ==
    { ReceiveInto(Identifier("x"), Identifier("S"), FALSE),
      ReceiveInto(Identifier("x"), Identifier("c"), TRUE),
      ReceiveInto(IntegerLiteral(3), Identifier("S"), FALSE),
      ReceiveInto(IntegerLiteral(3), Identifier("c"), TRUE),
      ReceiveInto(Identifier("x"), IntegerLiteral(3), TRUE) }

ReceivePrograms ==
    { DirectedPair(u, v) : u \in {1, 2}, v \in {1, 2} } \cup ReceiveTargets

InitReceives ==
    /\ items \in ReceivePrograms
    /\ InitRuntime

NextReceives ==
    \/ AddTask
    \/ CreateTaskChannels
    \/ Start
    \/ \E p \in DOMAIN workers : WorkerLocal(p)
    \/ \E p \in DOMAIN workers : WorkerSend(p)
    \/ \E p \in DOMAIN workers : WorkerReceive(p)
    \/ \E p \in DOMAIN workers : WorkerSelect(p)
    \/ \E r \in DOMAIN workers : \E s \in DOMAIN workers : Rendezvous(r, s)
    \/ \E p \in DOMAIN workers : WorkerComplete(p)
    \/ JoinReceive
    \/ JoinReturn

ReceiveSpec == InitReceives /\ [][NextReceives]_vars

(***************************************************************************)
(* Properties.                                                             *)
(***************************************************************************)
Ids == {tasks[p].state.id : p \in DOMAIN tasks}

LoggedPairs == (Ids \X Ids) \cup DOMAIN sent \cup DOMAIN received

IsPrefix(r, s) == Len(r) <= Len(s) /\ SubSeq(s, 1, Len(r)) = r

\* The frame a is blocked in a send to the frame b.
Pending(a, b) ==
    \E p \in DOMAIN workers :
        /\ workers[p].task.id = a
        /\ workers[p].status = "sending"
        /\ workers[p].out_to = b

\* C1 (rendezvous): on every directed channel a -> b the values taken by b are
\* the values offered by a, each exactly once, and a send has returned exactly
\* when its value has been taken: the values offered are the values taken plus
\* the one value of a send that is still blocked.  No receive takes a value
\* that no send offered on that channel.
C1_Rendezvous ==
    \A pair \in LoggedPairs :
        Len(LogOf(sent, pair)) < MaxLog =>
            /\ IsPrefix(LogOf(received, pair), LogOf(sent, pair))
            /\ Len(LogOf(sent, pair)) =
                   Len(LogOf(received, pair)) + (IF Pending(pair[1], pair[2]) THEN 1 ELSE 0)

\* C1 witness: two sends of one frame to another have both returned, each
\* value taken once.
C1_Witness ==
    \E pair \in DOMAIN sent :
        /\ Len(sent[pair]) = 2
        /\ LogOf(received, pair) = sent[pair]
        /\ ~Pending(pair[1], pair[2])

\* C2 (per-channel FIFO): for every ordered pair of frames (a, b) the values b
\* has received from a, by directed and by select receives, are a prefix of
\* the values a has sent to b, in a's send order.
C2_Fifo ==
    \A pair \in LoggedPairs : IsPrefix(LogOf(received, pair), LogOf(sent, pair))

\* C2 witness: two different values went over one channel, in send order,
\* while another channel of the program carried a value too.
C2_Witness ==
    \E pair \in DOMAIN received :
        /\ Len(received[pair]) = 2
        /\ received[pair][1] # received[pair][2]
        /\ \E other \in DOMAIN received : other # pair /\ Len(received[other]) >= 1

\* C3 (channel topology): once create_task_channels has run over the N
\* registered frames, every frame's senders and receivers are keyed by exactly
\* the ids of the other N-1 frames, t.senders[u.id] and u.receivers[t.id] are
\* one and the same channel, and the channels of different ordered pairs are
\* different: N*(N-1) channels in all.
C3_Topology ==
    phase # "register" =>
        /\ \A p \in DOMAIN tasks :
              /\ DOMAIN tasks[p].state.senders = Ids \ {tasks[p].state.id}
              /\ DOMAIN tasks[p].state.receivers = Ids \ {tasks[p].state.id}
        /\ \A p \in DOMAIN tasks : \A q \in DOMAIN tasks :
              p # q => tasks[p].state.senders[tasks[q].state.id]
                           = tasks[q].state.receivers[tasks[p].state.id]
        /\ Cardinality(UNION {{tasks[p].state.senders[id] : id \in Ids \ {tasks[p].state.id}} :
                                   p \in DOMAIN tasks})
               = Len(tasks) * (Len(tasks) - 1)
        /\ \A p \in DOMAIN workers :
              /\ workers[p].task.senders = tasks[p].state.senders
              /\ workers[p].task.receivers = tasks[p].state.receivers

\* C3 witness: three frames are wired and running.
C3_Witness == phase = "started" /\ Len(tasks) = 3 /\ wire_calls = 1

FormattedNameOf(p) == formatted_name(tasks[p].state.name, tasks[p].state.index)

\* The worker p has returned a runtime error from evaluate.
FailedWithErr(p) ==
    /\ workers[p].status \in {"evaluated", "finished"}
    /\ ~workers[p].result.ok

\* A step in which the evaluation of the frame p raises a runtime error: no
\* other worker changes, but for the sender whose value p had just taken, and
\* nothing of join changes.
C4_FailureStep ==
    \A p \in DOMAIN workers :
        (workers[p].status \in {"running", "receiving"} /\ FailedWithErr(p)') =>
            /\ DOMAIN workers' = DOMAIN workers
            /\ \A q \in DOMAIN workers \ {p} :
                  \/ workers'[q] = workers[q]
                  \/ /\ workers[p].status = "receiving"
                     /\ workers[q].status = "sending"
                     /\ workers'[q] = FinishSend(workers[q])
            /\ UNCHANGED << result_queue, results, reports, join_count, phase, tasks, globals, tokenizer, parser >>

\* The error of a frame whose worker has finished is in its completion
\* message, queued or reported by join under the frame's formatted name.
C4_FailureReported ==
    \A p \in DOMAIN workers :
        (workers[p].status = "finished" /\ ~workers[p].result.ok) =>
            \/ \E k \in DOMAIN result_queue :
                  result_queue[k] = [id |-> tasks[p].state.id, name |-> FormattedNameOf(p),
                                     result |-> workers[p].result]
            \/ \E k \in DOMAIN reports :
                  reports[k] = [name |-> FormattedNameOf(p), ok |-> FALSE]

\* Nothing more can happen in a run that no task has exited: join has
\* returned, or no worker can take a step, no blocked send meets a blocked
\* receive, and join waits for a message that is not there.
Quiescent ==
    \/ phase = "joined"
    \/ /\ phase = "started"
       /\ \A p \in DOMAIN workers : workers[p].status \notin {"running", "evaluated"}
       /\ \A r \in DOMAIN workers : \A s \in DOMAIN workers :
             ~(workers[r].status = "receiving" /\ workers[s].status = "sending"
               /\ Ready(r, s) # {})
       /\ result_queue = << >>
       /\ join_count < Len(tasks)

\* When nothing more can happen, every worker has either finished, and join
\* has reported it, or is blocked on a channel or has panicked: no worker
\* that could complete is left behind.
C4_OthersComplete ==
    Quiescent =>
        /\ \A q \in DOMAIN workers :
              workers[q].status \in {"finished", "sending", "receiving", "panicked"}
        /\ result_queue = << >>
        /\ Len(reports) = Cardinality({q \in DOMAIN workers : workers[q].status = "finished"})

\* C4 (error isolation): a runtime error (unknown identifier, non-integer
\* operand, index out of range, send or receive on a non-task value) stops
\* only the worker of the frame that raised it; join reports the frame's Err
\* under its formatted name; no other worker is stopped or changed by the
\* failure, and every other frame that can complete completes and is reported.
C4_ErrorIsolation ==
    /\ [][C4_FailureStep]_vars
    /\ [](C4_FailureReported /\ C4_OthersComplete)

\* C4 witness: join has returned; one frame failed with an index out of range
\* and was reported as an error, another completed with a value afterwards.
C4_Witness ==
    /\ phase = "joined"
    /\ \E p \in DOMAIN workers : \E q \in DOMAIN workers :
          /\ workers[p].result = Err("index is out of range")
          /\ workers[q].result = Ok(Integer(3))
          /\ reports = << [name |-> FormattedNameOf(p), ok |-> FALSE],
                          [name |-> FormattedNameOf(q), ok |-> TRUE] >>

\* The body of the frame p divides by a literal zero.
DividesByZero(p) == tasks[p].body = DivideByZero.body

\* C5 (divide-by-zero is a runtime error of the frame): a frame that divides
\* by zero completes with an Err result, its worker emits its completion
\* message, join reports the Err under the frame's formatted name, and join
\* returns once all frames have completed.
C5_DivideByZeroIsError ==
    \A p \in DOMAIN workers :
        DividesByZero(p) =>
            /\ workers[p].status \in {"running", "evaluated", "finished"}
            /\ workers[p].status # "running" => ~workers[p].result.ok
            /\ Quiescent =>
                  /\ phase = "joined"
                  /\ \E k \in DOMAIN reports :
                        reports[k] = [name |-> FormattedNameOf(p), ok |-> FALSE]

\* C6 (join): join returns only after every worker has emitted its completion
\* message, and the map it returns has exactly one entry per frame, keyed by
\* the frame's formatted name and holding that frame's own result.
C6_JoinMap ==
    phase = "joined" =>
        /\ \A p \in DOMAIN workers : workers[p].status = "finished"
        /\ DOMAIN workers = DOMAIN tasks
        /\ join_count = Len(tasks)
        /\ Cardinality(DOMAIN results) = Len(tasks)
        /\ \A p \in DOMAIN tasks :
              /\ FormattedNameOf(p) \in DOMAIN results
              /\ results[FormattedNameOf(p)] = workers[p].result

\* C7 (task names are unique): no two frames share a formatted name, and a
\* registration never replaces the global bound by an earlier one.
C7_UniqueNames ==
    /\ \A p \in DOMAIN tasks : \A q \in DOMAIN tasks :
          p # q => FormattedNameOf(p) # FormattedNameOf(q)
    /\ \A name \in DOMAIN globals.task_values_by_name :
          \E p \in DOMAIN tasks :
              /\ tasks[p].state.name = name
              /\ \A q \in DOMAIN tasks : tasks[q].state.name = name =>
                    \/ globals.task_values_by_name[name]
                           = TaskReference(tasks[q].state.id, FormattedNameOf(q))
                    \/ /\ globals.task_values_by_name[name].tag = "Array"
                       /\ \E k \in DOMAIN globals.task_values_by_name[name].items :
                             globals.task_values_by_name[name].items[k]
                                 = TaskReference(tasks[q].state.id, FormattedNameOf(q))

\* The worker r, blocked in a select-receive whose two targets are
\* identifiers, takes a value in this step.
SelectFires(r) ==
    /\ workers[r].status = "receiving"
    /\ Current(workers[r]).bind_channel
    /\ Current(workers[r]).value.kind = "Identifier"
    /\ Current(workers[r]).channel.kind = "Identifier"
    /\ workers'[r].status # "receiving"

\* In a step in which the select-receive of r fires, s is the one sender whose
\* value is taken: its send to r returns, its value becomes the destination
\* variable of r, the receive history of the pair (s, r) grows by that value
\* and no other, and every other worker, blocked senders included, stays as
\* it is.
TakesFrom(r, s) ==
    /\ workers[s].status = "sending"
    /\ workers[s].out_to = tasks[r].state.id
    /\ workers'[s].status # "sending"
    /\ \A q \in DOMAIN workers \ {r, s} : workers'[q] = workers[q]
    /\ workers'[r].task.locals[Current(workers[r]).value.name] = workers[s].out_value
    /\ received' = LogAppend(received, << tasks[s].state.id, tasks[r].state.id >>,
                             workers[s].out_value)

\* The channel variable of r's select-receive is bound to the task reference
\* of the frame s.
BindsPeer(r, s) ==
    workers'[r].task.locals[Current(workers[r]).channel.name]
        = TaskReference(tasks[s].state.id, FormattedNameOf(s))

\* C8 as claimed (select-receive binds the true peer): one select-receive
\* takes exactly one value from exactly one inbound endpoint, binds the
\* destination variable to that value and the channel variable to
\* TaskRef(id, formatted name) of the frame that sent it; the other pending
\* sends stay blocked.
C8_SelectBindsPeer ==
    [][\A r \in DOMAIN workers :
          SelectFires(r) => \E s \in DOMAIN workers : TakesFrom(r, s) /\ BindsPeer(r, s)]_vars

\* C8 as amended: the same, but the channel variable is bound to the sender's
\* task reference only when it is another name than the destination variable;
\* when both are one name the variable holds the received value.
C8_SelectBindsPeerUnlessSameName ==
    [][\A r \in DOMAIN workers :
          SelectFires(r) =>
              \E s \in DOMAIN workers :
                  /\ TakesFrom(r, s)
                  /\ Current(workers[r]).channel.name # Current(workers[r]).value.name
                        => BindsPeer(r, s)]_vars

\* C8 witness: a select-receive has bound src and w to the second replica and
\* its value while the first replica is still blocked in its send.
C8_Witness ==
    \E r \in DOMAIN workers : \E s \in DOMAIN workers : \E q \in DOMAIN workers :
        /\ "src" \in DOMAIN workers[r].task.locals
        /\ "w" \in DOMAIN workers[r].task.locals
        /\ tasks[s].state.index = Some(1)
        /\ workers[r].task.locals["src"] = TaskReference(tasks[s].state.id, "A[1]")
        /\ workers[r].task.locals["w"] = Integer(1)
        /\ tasks[q].state.index = Some(0)
        /\ workers[q].status = "sending"
        /\ workers[q].out_to = tasks[r].state.id

\* The frame p has no inbound endpoint and its body starts with a
\* select-receive.
SelectsOnNothing(p) ==
    /\ DOMAIN workers[p].task.receivers = {}
    /\ tasks[p].body.items # << >>
    /\ tasks[p].body.items[1].kind = "Receive"
    /\ tasks[p].body.items[1].bind_channel

\* C9 (select-receive on an empty inbound table): the frame never gets past
\* the select-receive: it binds no variable, runs no later statement, never
\* returns from evaluate, emits no completion message, and join never returns.
C9_EmptySelectNeverYields ==
    \A p \in DOMAIN workers :
        SelectsOnNothing(p) =>
            /\ workers[p].status \in {"running", "receiving", "panicked"}
            /\ workers[p].status = "running" => Top(workers[p]).i = 1
            /\ workers[p].task.locals = EmptyMap
            /\ \A k \in DOMAIN result_queue : result_queue[k].id # tasks[p].state.id
            /\ FormattedNameOf(p) \notin DOMAIN results
            /\ phase # "joined"

\* C9 witness: the only frame of the program has executed its select-receive
\* and nothing can happen any more.
C9_Witness ==
    /\ Len(tasks) = 1
    /\ phase = "started"
    /\ SelectsOnNothing(1)
    /\ workers[1].status = "receiving"
    /\ workers[1].wait = {}
    /\ Quiescent

\* The receiver of SelectLoopProgram (the last frame) has just bound its
\* channel variable to the peer at position s.
TookFrom(s) ==
    /\ phase = "started"
    /\ "src" \in DOMAIN workers[Len(tasks)].task.locals
    /\ workers[Len(tasks)].task.locals["src"].id = tasks[s].state.id

\* The peer at position s is not blocked in its send.
NotBlocked(s) == phase = "started" /\ workers[s].status = "running"

\* C10 (select fairness): with two peers sending to one receiver in an endless
\* loop and the receiver select-receiving in an endless loop, in every fair
\* execution the receiver takes values from both peers again and again, and
\* neither peer stays blocked in a send for ever.
C10_SelectFairness ==
    \A s \in SelectLoopFrames \ {Len(SelectLoopProgram) + 1} :
        []<>TookFrom(s) /\ []<>NotBlocked(s)

\* C10 witness: the receiver has taken a value of each peer, the last one
\* from the second peer while the first was blocked in its send.
C10_Witness ==
    /\ phase = "started"
    /\ Len(tasks) = Len(SelectLoopProgram) + 1
    /\ Len(LogOf(received, << 1, Len(tasks) >>)) >= 1
    /\ Len(LogOf(received, << 2, Len(tasks) >>)) >= 1
    /\ TookFrom(2)
    /\ workers[1].status = "sending"

\* The worker p is about to evaluate, or has evaluated, an Exit.
AtExit(p) ==
    /\ workers[p].status = "running"
    /\ Current(workers[p]).kind = "Exit"

\* C11 (Exit stops everything): the step in which a frame evaluates Exit ends
\* the process: it changes no worker, no channel history, no output and
\* nothing of join; from then on nothing changes at all, so no frame executes
\* a further statement, blocked frames stay blocked, and join never returns a
\* map.  A frame never gets past an Exit.
C11_ExitStopsEverything ==
    [][/\ phase = "exited" => UNCHANGED vars
       /\ \A p \in DOMAIN workers : AtExit(p) => workers'[p] = workers[p]
       /\ (phase # "exited" /\ phase' = "exited") =>
             /\ phase = "started"
             /\ \E p \in DOMAIN workers : AtExit(p)
             /\ UNCHANGED << workers, result_queue, results, join_count, reports, stdout,
                             sent, received, tokenizer, parser >>]_vars

\* C11 witness: the process has exited after printing 0 and 1 while another
\* frame was blocked in a receive and join had reported nothing.
C11_Witness ==
    /\ phase = "exited"
    /\ stdout = << "0", "1" >>
    /\ \E p \in DOMAIN workers : AtExit(p)
    /\ \E q \in DOMAIN workers : workers[q].status = "receiving"
    /\ reports = << >>

\* The name of the i-th replica of a definition.
ReplicaName(name, i) == name \o "[" \o ToString(i) \o "]"

\* The step registers the definition at the head of items: with k replicas it
\* appends exactly k frames with index 0 .. k-1, described by name[0] ..
\* name[k-1], and binds the name to the array of their task references in
\* that order; without replicas it appends one frame without index and binds
\* the name to its task reference.
RegistersHead ==
    LET item == Head(items)
        n == Len(tasks)
        k == IF item.instances = None THEN 1 ELSE item.instances[1]
    IN /\ Len(tasks') = n + k
       /\ SubSeq(tasks', 1, n) = tasks
       /\ \A i \in 0 .. (k - 1) :
             LET frame == tasks'[n + i + 1]
             IN /\ frame.state.name = item.name
                /\ frame.body = item.body
                /\ frame.state.index = (IF item.instances = None THEN None ELSE Some(i))
                /\ globals'.task_descriptions_by_id[frame.state.id] =
                       (IF item.instances = None THEN item.name
                        ELSE ReplicaName(item.name, i))
       /\ globals'.task_values_by_name[item.name] =
              (IF item.instances = None
               THEN TaskReference(tasks'[n + 1].state.id, item.name)
               ELSE Array([i \in 1 .. k |->
                              TaskReference(tasks'[n + i].state.id,
                                            ReplicaName(item.name, i - 1))]))

\* What `$index` is in the frame p: Integer(i) in the i-th replica, Null in a
\* frame that is no replica.
IndexValue(p) ==
    IF tasks[p].state.index = None THEN Null ELSE Integer(tasks[p].state.index[1])

\* Where a frame uses `$index`, it has that value: a ConstantSource sends it,
\* a frame with MagicNamesBody prints it and returns it.
IndexResolves ==
    \A p \in DOMAIN workers :
        /\ tasks[p].body = ConstantSource(1).body =>
              \A pair \in DOMAIN sent :
                  pair[1] = tasks[p].state.id => sent[pair] = << IndexValue(p) >>
        /\ (tasks[p].body = MagicNamesBody /\ workers[p].status \in {"evaluated", "finished"}) =>
              /\ workers[p].result = Ok(IndexValue(p))
              /\ \E k \in DOMAIN stdout : stdout[k] = to_printable_string(IndexValue(p))

\* C12 (replica indexing): a definition registered with k >= 1 replicas
\* creates exactly k frames with index 0 .. k-1 and formatted names name[0] ..
\* name[k-1], and the name is bound to the array of their k task references in
\* index order; a definition without replicas creates one frame and is bound
\* to its task reference; `$index` is Integer(i) in the i-th replica and Null
\* in a frame that is no replica.
C12_ReplicaIndexing ==
    /\ [][items' # items => RegistersHead]_vars
    /\ []IndexResolves

\* C12 witness: a definition with one replica was registered as the array of
\* one task reference, the replica sent its index 0, and join has returned.
C12_Witness ==
    /\ phase = "joined"
    /\ Len(tasks) = 2
    /\ tasks[1].state.index = Some(0)
    /\ "ConstantSource" \in DOMAIN globals.task_values_by_name
    /\ globals.task_values_by_name["ConstantSource"]
           = Array(<< TaskReference(tasks[1].state.id, "ConstantSource[0]") >>)
    /\ LogOf(sent, << tasks[1].state.id, tasks[2].state.id >>) = << Integer(0) >>

\* The ids of the frames are 1, 2, ... in creation order, hence pairwise
\* distinct; the counter is one past the last; every id is described by its
\* frame's formatted name and nothing else is described; a worker carries the
\* id of its frame.
DenseTaskIds ==
    /\ \A p \in DOMAIN tasks : tasks[p].state.id = p
    /\ \A p \in DOMAIN tasks : \A q \in DOMAIN tasks :
          p # q => tasks[p].state.id # tasks[q].state.id
    /\ next_task_id = Len(tasks) + 1
    /\ DOMAIN globals.task_descriptions_by_id = Ids
    /\ \A p \in DOMAIN tasks :
          globals.task_descriptions_by_id[tasks[p].state.id] = FormattedNameOf(p)
    /\ \A p \in DOMAIN workers : workers[p].task.id = tasks[p].state.id

\* No step removes a frame or changes the id or the description of one.
StableTaskIds ==
    \A p \in DOMAIN tasks :
        /\ p \in DOMAIN tasks'
        /\ tasks'[p].state.id = tasks[p].state.id
        /\ globals'.task_descriptions_by_id[tasks[p].state.id]
               = globals.task_descriptions_by_id[tasks[p].state.id]

\* C13 (TaskId uniqueness): after any sequence of add_task calls the frames,
\* replicas included, have pairwise distinct ids, dense in creation order; the
\* id of a frame never changes; task_descriptions_by_id maps every frame's id
\* to the frame's formatted name.
C13_TaskIds == []DenseTaskIds /\ [][StableTaskIds]_vars

\* C13 witness: three frames, two of them replicas of one definition, are
\* running with the ids 1, 2 and 3.
C13_Witness ==
    /\ phase = "started"
    /\ Len(tasks) = 3
    /\ \E p \in DOMAIN tasks : \E q \in DOMAIN tasks :
          /\ tasks[p].state.index = Some(0)
          /\ tasks[q].state.index = Some(1)
          /\ tasks[p].state.name = tasks[q].state.name
    /\ \E p \in DOMAIN workers : workers[p].status = "finished"
    /\ DenseTaskIds

\* What join returns for ReplicaFanIn(k): k + 1 entries, the sum
\* 0 + 1 + ... + (k-1) for Main and Null for every replica.
FanInResults(k) ==
    /\ DOMAIN results = {"Main"} \cup {ReplicaName("ConstantSource", i) : i \in 0 .. (k - 1)}
    /\ Cardinality(DOMAIN results) = k + 1
    /\ results["Main"] = Ok(Integer((k * (k - 1)) \div 2))
    /\ \A i \in 0 .. (k - 1) : results[ReplicaName("ConstantSource", i)] = Ok(Null)
    /\ \A p \in DOMAIN workers : workers[p].status = "finished"

\* C14 (replica fan-in terminates): when each of k replicas sends its `$index`
\* once to Main and Main receives from replica 0, 1, ..., k-1 in that order,
\* then under every interleaving all k + 1 frames terminate and join returns a
\* map of k + 1 entries: the sum 0 + ... + (k-1) for Main, Null for every
\* replica.
C14_FanInTerminates ==
    (\E k \in 1 .. MaxInstances : items = ReplicaFanIn(k))
        ~> (phase = "joined" /\ FanInResults(Len(tasks) - 1))

\* C14 witness: join has returned the map for MaxInstances replicas in a run
\* where the last replica's completion was the first to be reported.
C14_Witness ==
    /\ phase = "joined"
    /\ Len(tasks) = MaxInstances + 1
    /\ tasks[1].body = ConstantSource(MaxInstances).body
    /\ FanInResults(MaxInstances)
    /\ reports[1].name = ReplicaName("ConstantSource", MaxInstances - 1)

\* The frames are those of the program, a sequence of definitions without
\* replicas, all registered.
Registered(program) ==
    /\ items = << >>
    /\ Len(tasks) = Len(program)
    /\ \A p \in DOMAIN tasks :
          /\ tasks[p].state.name = program[p].name
          /\ tasks[p].body = program[p].body
          /\ program[p].instances = None

\* In scenario 6 the frames A, B and C are at the positions 1, 2 and 3; A
\* sends Integer(1) and B sends Integer(2).
OwnValue(s) == Integer(s)

\* C has taken the value of the frame s.
TakenByC(s) == LogOf(received, << tasks[s].state.id, tasks[3].state.id >>) = << OwnValue(s) >>

\* C15 as claimed (scenario 6): in every execution exactly one of A and B has
\* its value taken by C's select-receive and receives its own value back from
\* C, while the other blocks for ever in its send.
C15_OneGetsItsValueBack ==
    (Registered(SelectBindsPeer) /\ Quiescent) =>
        \E s \in {1, 2} :
            /\ TakenByC(s)
            /\ LogOf(received, << tasks[3].state.id, tasks[s].state.id >>) = << OwnValue(s) >>
            /\ workers[3 - s].status = "sending"
            /\ ~TakenByC(3 - s)

\* C15 as amended: exactly one of A and B has its value taken by C's
\* select-receive and completes with Null; C binds src to that frame and then
\* blocks for ever sending the value back, which nobody receives; the other
\* of A and B blocks for ever in its send; C never completes and join never
\* returns.
C15_OneTakenBouncerBlocks ==
    Registered(SelectBindsPeer) =>
        /\ phase # "joined"
        /\ \A p \in DOMAIN workers :
              LogOf(received, << tasks[3].state.id, tasks[p].state.id >>) = << >>
        /\ ~(TakenByC(1) /\ TakenByC(2))
        /\ phase = "started" => workers[3].status \in {"running", "receiving", "sending"}
        /\ Quiescent =>
              \E s \in {1, 2} :
                  /\ TakenByC(s)
                  /\ workers[s].status = "finished" /\ workers[s].result = Ok(Null)
                  /\ workers[3].status = "sending"
                  /\ workers[3].out_to = tasks[s].state.id
                  /\ workers[3].out_value = OwnValue(s)
                  /\ workers[3].task.locals["src"]
                         = TaskReference(tasks[s].state.id, FormattedNameOf(s))
                  /\ workers[3 - s].status = "sending"
                  /\ workers[3 - s].out_to = tasks[3].state.id
                  /\ ~TakenByC(3 - s)
                  /\ reports = << [name |-> FormattedNameOf(s), ok |-> TRUE] >>

\* C15 witness: nothing can happen any more; C took the value of B and is
\* blocked sending it back, A is blocked in its send.
C15_Witness ==
    /\ Registered(SelectBindsPeer)
    /\ Quiescent
    /\ TakenByC(2)
    /\ workers[1].status = "sending"
    /\ workers[3].status = "sending"

RECURSIVE BouncedValue(_)

\* The value a literal stands for.
BouncedValue(v) ==
    CASE v.kind = "IntegerLiteral" -> Integer(v.i)
      [] v.kind = "BooleanLiteral" -> Boolean(v.b)
      [] v.kind = "NullLiteral" -> Null
      [] v.kind = "ArrayLiteral" -> Array([k \in DOMAIN v.items |-> BouncedValue(v.items[k])])

\* In BouncePair(v) the frame Bounce is at position 1 and X at position 2;
\* the value X sends is the one of the literal of its first statement.
ValueOfX == BouncedValue(tasks[2].body.items[1].value)

\* What join returns for a BouncePair: Null for Bounce, the value sent for X.
BounceResults ==
    /\ DOMAIN results = {"Bounce", "X"}
    /\ results["Bounce"] = Ok(Null)
    /\ results["X"] = Ok(ValueOfX)
    /\ \A p \in DOMAIN workers : workers[p].status = "finished"

\* Whatever X has received from Bounce is the value it sent, once.
ReceivesWhatItSent ==
    \A v \in BouncedLiterals :
        (Registered(BouncePair(v)) /\ phase # "register" /\ workers # << >>) =>
            /\ LogOf(received, << tasks[1].state.id, tasks[2].state.id >>)
                   \in {<< >>, << BouncedValue(v) >>}
            /\ "y" \in DOMAIN workers[2].task.locals =>
                   workers[2].task.locals["y"] = BouncedValue(v)

\* C16 (bounce round trip): X sends v to a task that select-receives (x, c)
\* once and sends x to c, then X receives from that task: X receives exactly
\* v, both tasks terminate, and join returns Null for the bouncer and v for X.
C16_BounceRoundTrip ==
    /\ []ReceivesWhatItSent
    /\ (\E v \in BouncedLiterals : items = BouncePair(v)) ~> (phase = "joined" /\ BounceResults)

\* C16 witness: join has returned; X sent the array [ 1, null ] and has it
\* back as its result.
C16_Witness ==
    /\ phase = "joined"
    /\ \E v \in BouncedLiterals : v.kind = "ArrayLiteral" /\ Registered(BouncePair(v))
    /\ BounceResults
    /\ results["X"] = Ok(Array(<< Integer(1), Null >>))

\* The only frame of the program has the body of BinaryOfLiterals(a, op, b).
Computes(a, op, b) ==
    /\ Len(tasks) = 1
    /\ tasks[1].body = BinaryOfLiterals(a, op, b)[1].body

\* The evaluation of the only frame has ended, with a result or by a panic.
Ended == workers # << >> /\ workers[1].status \in {"evaluated", "finished", "panicked"}

\* C17 (integer overflow wraps): for all operands, Add, Subtract and Multiply,
\* and Divide of the minimum integer by -1, yield the two's-complement wrapped
\* result as an Integer; an overflow raises no error and does not keep the
\* frame from completing.
C17_OverflowWraps ==
    \A a \in Integers64 : \A b \in Integers64 :
        \A op \in {"Add", "Subtract", "Multiply", "Divide"} :
            (/\ Computes(a, op, b)
             /\ op = "Divide" => (a = MinInteger /\ b = -1)
             /\ Ended) =>
                /\ workers[1].status # "panicked"
                /\ workers[1].result = Ok(Integer(Wrap(Exact(op, a, b))))

\* The only frame of the program has the body of WrapIdentity(a, b).
ComputesIdentity(a, b) ==
    /\ Len(tasks) = 1
    /\ tasks[1].body = WrapIdentity(a, b)[1].body

\* C18 as claimed: for all integers a and b with b # 0, `(a + b) * b / b`
\* evaluates to the same Integer as `a + b`, every operation wrapping.
C18_WrapIdentity ==
    \A a \in Integers64 : \A b \in Integers64 \ {0} :
        (ComputesIdentity(a, b) /\ Ended) =>
            /\ workers[1].status # "panicked"
            /\ workers[1].result = Ok(Integer(Wrap(a + b)))

\* C18 as amended: for all integers a and b with b # 0 such that neither
\* a + b nor (a + b) * b leaves the integer range, `(a + b) * b / b`
\* evaluates to the Integer a + b.
C18_IdentityWithoutOverflow ==
    \A a \in Integers64 : \A b \in Integers64 \ {0} :
        (/\ ComputesIdentity(a, b)
         /\ a + b \in Integers64
         /\ (a + b) * b \in Integers64
         /\ Ended) =>
            /\ workers[1].status # "panicked"
            /\ workers[1].result = Ok(Integer(a + b))

\* C18 witness: join has returned MaxInteger - 1 for
\* `(MaxInteger + -1) * -1 / -1`.
C18_Witness ==
    /\ phase = "joined"
    /\ ComputesIdentity(MaxInteger, -1)
    /\ results = MapInsert(EmptyMap, "X", Ok(Integer(MaxInteger - 1)))

\* The evaluation of the frame p has ended with a result.
Evaluated(p) == workers[p].status \in {"evaluated", "finished"}

\* A frame that has assigned 5 to `$index` and 6 to `$out` holds both as
\* locals, and still sends to standard output and returns its replica index.
MagicNamesWin ==
    \A p \in DOMAIN workers :
        (tasks[p].body = MagicNamesBody /\ Evaluated(p)) =>
            /\ "$index" \in DOMAIN workers[p].task.locals
            /\ workers[p].task.locals["$index"] = Integer(5)
            /\ "$out" \in DOMAIN workers[p].task.locals
            /\ workers[p].task.locals["$out"] = Integer(6)
            /\ workers[p].result = Ok(IndexValue(p))
            /\ \E k \in DOMAIN stdout : stdout[k] = to_printable_string(IndexValue(p))
            /\ \A pair \in DOMAIN sent : pair[1] # workers[p].task.id

\* In ShadowProgram the name B is the task reference of the task B before the
\* frame assigns to it and the local value 3 afterwards.
LocalsShadowTasks ==
    \A p \in DOMAIN workers :
        (tasks[p].body = ShadowTask.body /\ Evaluated(p)) =>
            /\ "B" \in DOMAIN globals.task_values_by_name
            /\ "B" \in DOMAIN workers[p].task.locals
            /\ workers[p].result
                   = Ok(Array(<< globals.task_values_by_name["B"], Integer(3) >>))
            /\ globals.task_values_by_name["B"].tag = "TaskReference"

\* A name that is neither magic, nor a local, nor a task is a resolve error.
UnknownNameFails ==
    \A p \in DOMAIN workers :
        (tasks[p].body = UnknownName.body /\ workers[p].status # "running") =>
            /\ Evaluated(p)
            /\ workers[p].result = Err("could not find")

\* resolve on the state of every frame, for the names of the programs.
ResolvesByPrecedence ==
    \A p \in DOMAIN workers :
        LET st == workers[p].task
            task_values == globals.task_values_by_name
        IN \A name \in {"$out", "$index", "zz"} \cup DOMAIN st.locals \cup DOMAIN task_values :
               resolve(st, name, globals)
                   = CASE name = "$out" -> Ok(MagicOut)
                       [] name = "$index" -> Ok(IndexValue(p))
                       [] name \notin {"$out", "$index"} /\ name \in DOMAIN st.locals
                              -> Ok(st.locals[name])
                       [] name \notin {"$out", "$index"} \cup DOMAIN st.locals
                              /\ name \in DOMAIN task_values
                              -> Ok(task_values[name])
                       [] OTHER -> Err("could not find")

\* C19 (resolution precedence): `$out` and `$index` resolve to the magic
\* value whatever locals or tasks exist, also after an assignment to them;
\* any other name resolves to the frame's local binding if there is one, even
\* when a task of that name is registered, otherwise to the task value,
\* otherwise to a resolve error.
C19_ResolutionPrecedence ==
    /\ MagicNamesWin
    /\ LocalsShadowTasks
    /\ UnknownNameFails
    /\ ResolvesByPrecedence

\* C19 witness: join has returned for the plain frame P, which assigned to
\* both magic names and returned Null, and for U, which failed to resolve zz.
C19_Witness ==
    /\ phase = "joined"
    /\ Len(tasks) = 2
    /\ tasks[1].body = MagicNamesBody
    /\ workers[1].task.locals["$index"] = Integer(5)
    /\ stdout = << "null" >>
    /\ results = MapInsert(MapInsert(EmptyMap, "P", Ok(Null)), "U", Err("could not find"))

\* No frame is blocked sending to itself or in a directed receive from itself.
NeverWaitsOnItself ==
    \A p \in DOMAIN workers :
        /\ workers[p].status = "sending" => workers[p].out_to # workers[p].task.id
        /\ workers[p].status = "receiving" =>
              \A operation \in workers[p].wait : operation.from # workers[p].task.id

\* The runtime error of a frame of SelfAddressed or SelfAddressedReplicas:
\* the frame that sends to itself finds no sender, the frame that receives
\* from itself finds no receiver.
SelfAddressedError(p) ==
    IF \/ tasks[p].body = SelfAddressed[1].body
       \/ (tasks[p].body = SelfAddressedReplicas[1].body /\ tasks[p].state.index = Some(0))
    THEN Err("no sender for task ID")
    ELSE Err("no receiver for task ID")

\* A frame that addresses itself never blocks, and its evaluation ends with
\* the runtime error.
SelfAddressedFails ==
    \A p \in DOMAIN workers :
        tasks[p].body \in {SelfAddressed[1].body, SelfAddressed[2].body,
                           SelfAddressedReplicas[1].body} =>
            /\ workers[p].status \in {"running", "evaluated", "finished"}
            /\ Evaluated(p) => workers[p].result = SelfAddressedError(p)
            /\ \A pair \in DOMAIN sent \cup DOMAIN received : workers[p].task.id \notin
                                                                 {pair[1], pair[2]}

\* C20 (self-addressed communication): a frame that sends to, or makes a
\* directed receive from, its own task reference, a replica addressing its own
\* element of the replica array included, fails with a runtime error in that
\* frame and does not block.
C20_SelfAddressedIsError ==
    /\ NeverWaitsOnItself
    /\ SelfAddressedFails

\* C20 witness: join has returned for the two replicas of R: R[0] failed in
\* its send to R[0], R[1] in its receive from R[1].
C20_Witness ==
    /\ phase = "joined"
    /\ Len(tasks) = 2
    /\ tasks[1].body = SelfAddressedReplicas[1].body
    /\ results = MapInsert(MapInsert(EmptyMap, "R[0]", Err("no sender for task ID")),
                           "R[1]", Err("no receiver for task ID"))
    /\ sent = EmptyMap

\* During the run every end of every channel a worker has in its tables is
\* held by some task state.
EndpointsHeld ==
    phase = "started" =>
        \A p \in DOMAIN workers :
            /\ \A id \in DOMAIN workers[p].task.senders :
                   ReceiverHeld(workers[p].task.senders[id])
            /\ \A id \in DOMAIN workers[p].task.receivers :
                   SenderHeld(workers[p].task.receivers[id])

\* No frame has the result of a closed channel, neither in its worker nor in
\* what join has collected.
NoChannelClosed ==
    LET closed == {Err("send error"), Err("receive error")}
    IN /\ \A p \in DOMAIN workers : workers[p].result \notin closed
       /\ \A k \in DOMAIN result_queue : result_queue[k].result \notin closed
       /\ \A name \in DOMAIN results : results[name] \notin closed

\* The evaluation of the frame with the task id has ended: its thread has
\* sent its completion, is about to, or has unwound.
Terminated(id) ==
    \E q \in DOMAIN workers :
        /\ workers[q].task.id = id
        /\ workers[q].status \in {"evaluated", "finished", "panicked"}

\* The worker p is blocked sending to, or in a directed receive from, a frame
\* whose evaluation has ended.
BlockedOnTerminated(p) ==
    \/ workers[p].status = "sending" /\ Terminated(workers[p].out_to)
    \/ /\ workers[p].status = "receiving"
       /\ ~Current(workers[p]).bind_channel
       /\ \A operation \in workers[p].wait : Terminated(operation.from)

\* C21 (endpoints are never dropped during a run): every channel end stays
\* held, no Send and no Receive yields a channel-closed result, and a worker
\* blocked sending to, or in a directed receive from, a terminated peer stays
\* exactly as it is in every later step.
C21_EndpointsNeverDropped ==
    /\ [](EndpointsHeld /\ NoChannelClosed)
    /\ [][\A p \in DOMAIN workers :
              BlockedOnTerminated(p) => (p \in DOMAIN workers' /\ workers'[p] = workers[p])]_vars

\* C21 witness: in TerminatedPeer A has completed and been reported, B is
\* blocked sending to A and C is blocked receiving from A.
C21_Witness ==
    /\ phase = "started"
    /\ Len(tasks) = 3
    /\ tasks[3].body = TerminatedPeer[3].body
    /\ workers[1].status = "finished"
    /\ join_count = 1
    /\ workers[2].status = "sending" /\ workers[2].out_to = workers[1].task.id
    /\ workers[3].status = "receiving"
    /\ BlockedOnTerminated(2) /\ BlockedOnTerminated(3)

\* What one call of create_task_channels makes of the registered frames,
\* starting from empty tables and from the first channel.
WiredOnce ==
    create_task_channels([p \in DOMAIN tasks |->
                             [tasks[p] EXCEPT !.state.senders = EmptyMap,
                                              !.state.receivers = EmptyMap]], 0)

\* C22 (channel wiring happens once): after any number of calls of
\* create_task_channels every frame's senders and receivers refer to the
\* channels of the first call, and no channel beyond those of the first call
\* has been allocated.
C22_WiringOnce ==
    phase # "register" =>
        /\ tasks = WiredOnce.tasks
        /\ next_channel = WiredOnce.next

\* The Index expression that is the body of the only frame, the length of
\* its array literal, and its index.
IndexNode == tasks[1].body.items[1]

ArrayLen == Len(IndexNode.value.items)

\* The only frame of the program indexes the array [ 1, ..., n ] by an
\* integer literal, or by a range of two integer literals.
IndexesByInteger ==
    /\ Len(tasks) = 1
    /\ tasks[1].body = IndexByInteger(ArrayLen, IndexNode.index.i)[1].body

IndexesByRange ==
    /\ Len(tasks) = 1
    /\ IndexNode.index.kind = "Range"
    /\ tasks[1].body = IndexByRange(ArrayLen, IndexNode.index.begin.i,
                                    IndexNode.index.end.i)[1].body

\* The element of [ 1, ..., n ] at the position k, counted from zero.
ElementAt(k) == Integer(k + 1)

\* C23 (integer index wrap-around): for every array A and integer i with
\* -len(A) <= i < len(A), Index(A, i) succeeds and returns the element at the
\* position i mod len(A): i itself when i >= 0, len(A) + i when i < 0.
C23_IndexWrapAround ==
    (tasks # << >> /\ IndexNode.index.kind = "IntegerLiteral") =>
        LET n == ArrayLen
            i == IndexNode.index.i
        IN (IndexesByInteger /\ -n <= i /\ i < n /\ Ended) =>
               /\ workers[1].result = Ok(ElementAt(i % n))
               /\ workers[1].result = Ok(ElementAt(IF i >= 0 THEN i ELSE n + i))

\* C23 witness: join has returned the first element for the index -len(A) of
\* the longest array.
C23_Witness ==
    /\ phase = "joined"
    /\ tasks[1].body = IndexByInteger(MaxArrayLen, -MaxArrayLen)[1].body
    /\ results = MapInsert(EmptyMap, "X", Ok(ElementAt(0)))

\* For a bound of a range over an array of length n: the bound itself, or
\* n plus the bound when it is negative.
WrappedBound(n, bound) == IF bound < 0 THEN n + bound ELSE bound

\* The elements of [ 1, ..., n ] at the positions b .. e-1, counted from zero.
Window(b, e) == [k \in 1 .. e - b |-> ElementAt(b + k - 1)]

\* C24 (range slicing): for every array A and integers 0 <= b <= e <= len(A),
\* Index(A, b .. e) is a new Array of length e - b holding A[b], ..., A[e-1] in
\* order; a negative begin or end is first replaced, independently of the
\* other, by len(A) plus its value.
C24_RangeSlicing ==
    (tasks # << >> /\ IndexesByRange) =>
        LET begin_val == WrappedBound(ArrayLen, IndexNode.index.begin.i)
            end_val == WrappedBound(ArrayLen, IndexNode.index.end.i)
        IN (0 <= begin_val /\ begin_val <= end_val /\ end_val <= ArrayLen /\ Ended) =>
               /\ workers[1].result = Ok(Array(Window(begin_val, end_val)))
               /\ Len(workers[1].result.value.items) = end_val - begin_val

\* C24 witness: join has returned [ 2, 3 ] for `[ 1, 2, 3, 4 ][-3 .. -1]`.
C24_Witness ==
    /\ phase = "joined"
    /\ tasks[1].body = IndexByRange(4, -3, -1)[1].body
    /\ results = MapInsert(EmptyMap, "X", Ok(Array(<< Integer(2), Integer(3) >>)))

\* The frame has ended with an Err and has not panicked; once join has
\* returned, the Err is what it returned for the frame.
EndsWithErr ==
    /\ workers[1].status # "panicked"
    /\ Ended => ~workers[1].result.ok
    /\ phase = "joined" => ("X" \in DOMAIN results /\ results["X"] = workers[1].result)

\* C25 (out-of-range indexing is an error): an integer index i with
\* i >= len(A) or i < -len(A), and a range whose wrapped begin exceeds its
\* wrapped end, whose wrapped end exceeds len(A) or whose wrapped bound is
\* still negative, yield an Err result for the frame, never a value, and the
\* worker reports its completion.
C25_OutOfRangeIsError ==
    workers # << >> =>
        /\ (IndexNode.index.kind = "IntegerLiteral" /\ IndexesByInteger) =>
              LET n == ArrayLen
                  i == IndexNode.index.i
              IN (i >= n \/ i < -n) =>
                     /\ EndsWithErr
                     /\ Ended => workers[1].result = Err("index is out of range")
        /\ IndexesByRange =>
              LET begin_val == WrappedBound(ArrayLen, IndexNode.index.begin.i)
                  end_val == WrappedBound(ArrayLen, IndexNode.index.end.i)
              IN (begin_val > end_val \/ end_val > ArrayLen \/ begin_val < 0 \/ end_val < 0) =>
                     /\ EndsWithErr
                     /\ Ended => workers[1].result = Err("indeces are out of range")

\* C25 witness: join has returned the Err of the index len(A) of the longest
\* array.
C25_Witness ==
    /\ phase = "joined"
    /\ tasks[1].body = IndexByInteger(MaxArrayLen, MaxArrayLen)[1].body
    /\ workers[1].status = "finished"
    /\ results = MapInsert(EmptyMap, "X", Err("index is out of range"))

\* Every worker's task state is the registered frame but for its locals, and
\* the frame kept by the runtime has no local at all.
OnlyLocalsDiffer ==
    \A p \in DOMAIN workers :
        /\ [workers[p].task EXCEPT !.locals = EmptyMap] = tasks[p].state
        /\ tasks[p].state.locals = EmptyMap

\* A step changes the locals of a worker only if that worker is evaluating:
\* running a statement or returning from its receive.  Once the workers are
\* started neither the globals nor the runtime's frames change.
OwnLocalsOnly ==
    workers # << >> =>
        /\ DOMAIN workers' = DOMAIN workers
        /\ globals' = globals
        /\ tasks' = tasks
        /\ \A p \in DOMAIN workers :
              workers'[p].task.locals # workers[p].task.locals =>
                  /\ workers[p].status \in {"running", "receiving"}
                  /\ \A q \in DOMAIN workers \ {p} :
                         \/ workers'[q] = workers[q]
                         \/ /\ workers[q].status = "sending"
                            /\ workers[q].out_to = workers[p].task.id
                            /\ workers'[q].task = workers[q].task

\* C28 (workers mutate only their own locals): evaluation changes nothing of
\* a frame except its locals map (name, id, index, senders and receivers stay
\* those of the registered frame), a frame's locals are written only by that
\* frame's worker, never by another worker or by the runtime, and the globals
\* never change after start.
C28_OnlyOwnLocals ==
    /\ []OnlyLocalsDiffer
    /\ [][OwnLocalsOnly]_vars

\* C28 witness: join has returned for two frames; one has bound locals, the
\* runtime's copy of it has none, and the other frame has no local.
C28_Witness ==
    /\ phase = "joined"
    /\ Len(tasks) = 2
    /\ \E p \in DOMAIN workers : \E q \in DOMAIN workers :
          /\ workers[p].task.locals # EmptyMap
          /\ tasks[p].state.locals = EmptyMap
          /\ workers[q].task.locals = EmptyMap
          /\ LogOf(received, << workers[q].task.id, workers[p].task.id >>) # << >>

\* The workers that are blocked in a send or in a receive.
BlockedWorkers == {p \in DOMAIN workers : workers[p].status \in {"sending", "receiving"}}

\* Every frame that has not completed is blocked on a send or a receive, and
\* no blocked send is on the channel of a blocked receive.
Deadlocked ==
    /\ phase = "started"
    /\ BlockedWorkers # {}
    /\ \A p \in DOMAIN workers : p \in BlockedWorkers \/ workers[p].status = "finished"
    /\ \A r \in BlockedWorkers : \A s \in BlockedWorkers :
          (workers[r].status = "receiving" /\ workers[s].status = "sending") =>
              Ready(r, s) = {}

\* From a deadlock on, join only takes the completions still queued: no
\* worker changes, no message of a blocked frame appears (the messages taken
\* and queued are those of the frames that have completed), and join does not
\* return.
StaysDeadlocked ==
    Deadlocked =>
        /\ Deadlocked'
        /\ workers' = workers
        /\ join_count' < Len(tasks)
        /\ \A p \in BlockedWorkers :
              \A k \in DOMAIN result_queue' : result_queue'[k].id # workers[p].task.id
        /\ join_count' + Len(result_queue')
               = Cardinality({p \in DOMAIN workers : workers[p].status = "finished"})

\* C29 (no deadlock detection): when every frame that has not completed is
\* blocked on a send or receive that can never be paired, the runtime neither
\* fails those frames nor injects an error result; the blocked frames stay
\* blocked forever and join never returns.
C29_NoDeadlockDetection == [][StaysDeadlocked]_vars

\* C29 witness: both frames of a program are blocked, each in a receive, no
\* completion was ever sent and join waits.
C29_Witness ==
    /\ Deadlocked
    /\ Len(tasks) = 2
    /\ \A p \in DOMAIN workers : workers[p].status = "receiving"
    /\ result_queue = << >>
    /\ join_count = 0

(***************************************************************************)
(* The parser (parser.rs).  A parse function returns the Option<Node> it   *)
(* returns in the source together with the parser it leaves behind.        *)
(***************************************************************************)
\* Parser::this: past the end it is the last token, the EndOfFile.
this_token(p) ==
    IF p.index >= Len(p.tokens) THEN p.tokens[Len(p.tokens)] ELSE p.tokens[p.index + 1]

\* Parser::push_unexpected_error
push_unexpected_error(p) ==
    [p EXCEPT !.errors = Append(@, "unexpected token " \o this_token(p).kind)]

\* Parser::expect: Some(()) is ok.
expect(p, kind) ==
    IF this_token(p).kind # kind
    THEN [ok |-> FALSE, p |-> push_unexpected_error(p)]
    ELSE [ok |-> TRUE, p |-> advance(p)]

\* A call self.function() between the parse functions, which are mutually
\* recursive: `function` names the one that is called.
RECURSIVE call(_, _)

parse_atom(p) ==
    LET token == this_token(p)
        \* The loop of an array literal, after the '['.
        RECURSIVE Items(_, _)
        AfterItem(elements, item) ==
            IF item.node = None THEN item
            ELSE LET comma == IF this_token(item.p).kind # "RightBrace"
                              THEN expect(item.p, "Comma")
                              ELSE [ok |-> TRUE, p |-> item.p]
                 IN IF ~comma.ok THEN [node |-> None, p |-> comma.p]
                    ELSE Items(comma.p, Append(elements, item.node[1]))
        Items(q, elements) ==
            IF this_token(q).kind = "RightBrace"
            THEN [node |-> Some(ArrayLiteral(elements)), p |-> advance(q)]
            ELSE AfterItem(elements, call("parse_expression", q))
    IN CASE token.kind = "Identifier" ->
                [node |-> Some(Identifier(token.id)), p |-> advance(p)]
         [] token.kind = "IntegerLiteral" ->
                [node |-> Some(IntegerLiteral(token.int)), p |-> advance(p)]
         [] token.kind = "KwTrue" -> [node |-> Some(BooleanLiteral(TRUE)), p |-> advance(p)]
         [] token.kind = "KwFalse" ->
                [node |-> Some(BooleanLiteral(FALSE)), p |-> advance(p)]
         [] token.kind = "KwNull" -> [node |-> Some(NullLiteral), p |-> advance(p)]
         [] token.kind = "LeftBrace" -> Items(advance(p), << >>)
         [] OTHER -> [node |-> None, p |-> advance(push_unexpected_error(p))]

parse_parens(p) ==
    LET Close(result) ==
            IF result.node = None THEN result
            ELSE IF this_token(result.p).kind # "RightParen"
            THEN [node |-> None, p |-> push_unexpected_error(result.p)]
            ELSE [node |-> result.node, p |-> advance(result.p)]
    IN IF this_token(p).kind = "LeftParen"
       THEN Close(call("parse_expression", advance(p)))
       ELSE call("parse_atom", p)

\* In the loops below `left` is the Option<Node> parsed so far with the
\* parser after it; a None ends the function, as the `?` does.
parse_index(p) ==
    LET RECURSIVE Loop(_)
        Indexed(left, index) ==
            IF index.node = None THEN index
            ELSE LET brace == expect(index.p, "RightBrace")
                 IN IF ~brace.ok THEN [node |-> None, p |-> brace.p]
                    ELSE Loop([node |-> Some(Index(left.node[1], index.node[1])),
                               p |-> brace.p])
        Loop(left) ==
            IF left.node # None /\ this_token(left.p).kind = "LeftBrace"
            THEN Indexed(left, call("parse_expression", advance(left.p)))
            ELSE left
    IN Loop(call("parse_parens", p))

parse_range(p) ==
    LET RECURSIVE Loop(_)
        Ranged(left, end) ==
            IF end.node = None THEN end
            ELSE Loop([node |-> Some(RangeNode(left.node[1], end.node[1])), p |-> end.p])
        Loop(left) ==
            IF left.node # None /\ this_token(left.p).kind = "Range"
            THEN Ranged(left, call("parse_expression", advance(left.p)))
            ELSE left
    IN Loop(call("parse_index", p))

parse_mul_div(p) ==
    LET RECURSIVE Loop(_)
        Operation(left, op, right) ==
            IF right.node = None THEN right
            ELSE Loop([node |-> Some(BinaryOperation(left.node[1], op, right.node[1])),
                       p |-> right.p])
        Loop(left) ==
            IF left.node # None /\ this_token(left.p).kind \in {"Multiply", "Divide"}
            THEN Operation(left, this_token(left.p).kind, call("parse_range", advance(left.p)))
            ELSE left
    IN Loop(call("parse_range", p))

parse_add_sub(p) ==
    LET RECURSIVE Loop(_)
        Operation(left, op, right) ==
            IF right.node = None THEN right
            ELSE Loop([node |-> Some(BinaryOperation(left.node[1], op, right.node[1])),
                       p |-> right.p])
        Loop(left) ==
            IF left.node # None /\ this_token(left.p).kind \in {"Add", "Subtract"}
            THEN Operation(left, this_token(left.p).kind, call("parse_mul_div", advance(left.p)))
            ELSE left
    IN Loop(call("parse_mul_div", p))

parse_comparison(p) ==
    LET RECURSIVE Loop(_)
        Operation(left, op, right) ==
            IF right.node = None THEN right
            ELSE Loop([node |-> Some(BinaryOperation(left.node[1], op, right.node[1])),
                       p |-> right.p])
        Loop(left) ==
            IF /\ left.node # None
               /\ this_token(left.p).kind \in {"Equals", "LessThan", "GreaterThan"}
            THEN Operation(left, this_token(left.p).kind, call("parse_add_sub", advance(left.p)))
            ELSE left
    IN Loop(call("parse_add_sub", p))

parse_assign(p) ==
    LET RECURSIVE Loop(_)
        Assigned(left, value) ==
            IF value.node = None THEN value
            ELSE Loop([node |-> Some(Assign(left.node[1], value.node[1])), p |-> value.p])
        Loop(left) ==
            IF left.node # None /\ this_token(left.p).kind = "Assign"
            THEN Assigned(left, call("parse_comparison", advance(left.p)))
            ELSE left
    IN Loop(call("parse_comparison", p))

parse_expression(p) == call("parse_assign", p)

parse_send_receive(p) ==
    LET Sent(left, right) ==
            IF right.node = None THEN right
            ELSE [node |-> Some(Send(left.node[1], right.node[1])), p |-> right.p]
        Received(left, bind_channel, right) ==
            IF right.node = None THEN right
            ELSE [node |-> Some(Receive(left.node[1], right.node[1], bind_channel)),
                  p |-> right.p]
        Arrow(left) ==
            LET kind == this_token(left.p).kind
                arrow == advance(left.p)
                bind_channel == this_token(arrow).kind = "QuestionMark"
            IN IF left.node = None THEN left
               ELSE CASE kind = "SendArrow" -> Sent(left, call("parse_expression", arrow))
                      [] kind = "ReceiveArrow" ->
                            Received(left, bind_channel,
                                     call("parse_expression", IF bind_channel THEN advance(arrow)
                                                      ELSE arrow))
                      [] OTHER -> left
    IN Arrow(call("parse_expression", p))

parse_while(p) ==
    LET Bodied(condition, body) ==
            [node |-> Some(While(condition.node[1], body.node[1])), p |-> body.p]
        \* After the condition: newline, indentation, body.
        Block(condition) ==
            LET newline == expect(condition.p, "NewLine")
                indent == expect(newline.p, "Indent")
            IN IF condition.node = None THEN condition
               ELSE IF ~newline.ok THEN [node |-> None, p |-> newline.p]
               ELSE IF ~indent.ok THEN [node |-> None, p |-> indent.p]
               ELSE Bodied(condition, call("parse_body", indent.p))
    IN CASE this_token(p).kind = "KwWhile" -> Block(call("parse_expression", advance(p)))
         [] this_token(p).kind = "KwLoop" ->
                Block([node |-> Some(BooleanLiteral(TRUE)), p |-> advance(p)])
         [] OTHER -> [node |-> None, p |-> expect(p, "KwWhile").p]

parse_if(p) ==
    LET Bodied(condition, body) ==
            [node |-> Some(If(condition.node[1], body.node[1])), p |-> body.p]
        \* After the condition: newline, indentation, body.
        Block(condition) ==
            LET newline == expect(condition.p, "NewLine")
                indent == expect(newline.p, "Indent")
            IN IF condition.node = None THEN condition
               ELSE IF ~newline.ok THEN [node |-> None, p |-> newline.p]
               ELSE IF ~indent.ok THEN [node |-> None, p |-> indent.p]
               ELSE Bodied(condition, call("parse_body", indent.p))
        keyword == expect(p, "KwIf")
    IN IF ~keyword.ok THEN [node |-> None, p |-> keyword.p]
       ELSE Block(call("parse_expression", keyword.p))

parse_statement(p) ==
    LET RECURSIVE SkipNewLines(_)
        SkipNewLines(q) ==
            IF this_token(q).kind = "NewLine" THEN SkipNewLines(advance(q)) ELSE q
        Statement(stmt) == [node |-> stmt.node, p |-> SkipNewLines(stmt.p)]
    IN Statement(CASE this_token(p).kind = "KwIf" -> call("parse_if", p)
                   [] this_token(p).kind \in {"KwWhile", "KwLoop"} -> call("parse_while", p)
                   [] this_token(p).kind = "KwExit" ->
                         [node |-> Some(Exit), p |-> advance(p)]
                   [] OTHER -> call("parse_send_receive", p))

\* The loop ends at a Dedent.  At the EndOfFile an iteration records an
\* error in parse_atom and leaves this() at the EndOfFile, so every later
\* iteration does the same: the loop has diverged.
parse_body(p) ==
    LET RECURSIVE Loop(_, _)
        Iteration(q, body_nodes, statement) ==
            Loop(IF this_token(q).kind = "EndOfFile"
                 THEN [statement.p EXCEPT !.diverged = TRUE]
                 ELSE statement.p,
                 IF statement.node # None
                 THEN Append(body_nodes, statement.node[1])
                 ELSE body_nodes)
        Loop(q, body_nodes) ==
            IF q.diverged \/ this_token(q).kind = "Dedent"
            THEN [node |-> Some(Body(body_nodes)),
                  p |-> IF q.diverged THEN q ELSE advance(q)]
            ELSE Iteration(q, body_nodes, call("parse_statement", q))
    IN Loop(p, << >>)

call(function, p) ==
    CASE function = "parse_atom" -> parse_atom(p)
      [] function = "parse_parens" -> parse_parens(p)
      [] function = "parse_index" -> parse_index(p)
      [] function = "parse_range" -> parse_range(p)
      [] function = "parse_mul_div" -> parse_mul_div(p)
      [] function = "parse_add_sub" -> parse_add_sub(p)
      [] function = "parse_comparison" -> parse_comparison(p)
      [] function = "parse_assign" -> parse_assign(p)
      [] function = "parse_expression" -> parse_expression(p)
      [] function = "parse_send_receive" -> parse_send_receive(p)
      [] function = "parse_while" -> parse_while(p)
      [] function = "parse_if" -> parse_if(p)
      [] function = "parse_statement" -> parse_statement(p)
      [] function = "parse_body" -> parse_body(p)

parse_task(p) ==
    LET keyword == expect(p, "KwTask")
        name == this_token(keyword.p)
        named == advance(keyword.p)
        replicated == this_token(named).kind = "LeftBrace"
        instance_count == this_token(advance(named))
        brace == expect(advance(advance(named)), "RightBrace")
        newline == expect(IF replicated THEN brace.p ELSE named, "NewLine")
        indent == expect(newline.p, "Indent")
        Push(body) ==
            IF body.p.diverged THEN body.p
            ELSE [body.p EXCEPT !.items =
                     Append(@, TaskDefinition(name.id, body.node[1],
                                              IF replicated THEN Some(instance_count.int)
                                              ELSE None))]
    IN IF ~keyword.ok THEN keyword.p
       ELSE IF name.kind # "Identifier" THEN push_unexpected_error(keyword.p)
       ELSE IF replicated /\ instance_count.kind # "IntegerLiteral"
       THEN push_unexpected_error(advance(named))
       ELSE IF replicated /\ instance_count.int < 1
       THEN [named EXCEPT !.index = @ + 1,
                          !.errors = Append(@, "task must have 1 or more instances")]
       ELSE IF replicated /\ ~brace.ok THEN brace.p
       ELSE IF ~newline.ok THEN newline.p
       ELSE IF ~indent.ok THEN indent.p
       ELSE Push(call("parse_body", indent.p))

\* parse_top_level
RECURSIVE parse_items(_)
parse_items(p) ==
    CASE p.diverged -> p
      [] ~p.diverged /\ this_token(p).kind = "KwTask" -> parse_items(parse_task(p))
      [] ~p.diverged /\ this_token(p).kind = "NewLine" -> parse_items(advance(p))
      [] ~p.diverged /\ this_token(p).kind = "EndOfFile" -> p
      [] OTHER -> push_unexpected_error(p)

(***************************************************************************)
(* run_code on a source text (lib.rs): tokenize, parse, then the runtime.  *)
(* phase is "tokenize", then "parse", then "register" as above; "rejected" *)
(* when run_code has returned None, "aborted" when the tokenizer's unwrap  *)
(* has unwound run_code, "diverged" when the parser cannot return.         *)
(***************************************************************************)
\* input.chars().collect()
chars(input) == [i \in 1 .. Len(input) |-> SubSeq(input, i, i)]

\* What may stand between the two statements of TwoStatements.
BlankLines == {"", "\n", "\n\n", "    \n", "  \n", "\n    \n\n", "\t\n"}

\* task X: 1; 2, with `blank` between the statements (tests/formatting.rs).
TwoStatements(blank) == "task X\n    1\n" \o blank \o "    2\n"

\* The source texts run.
Sources ==
    { TwoStatements(blank) : blank \in BlankLines }
        \cup { "task X\n    a = 1\n",
               "task X\n    a = 1\n    a\n",
               "task X\n    a = b = 1\n",
               "task X\n    1 -> $out\n",
               "task A\n    1 -> B\ntask B\n    x <- A\n",
               "task X\n    1 -> $out\n    y\n    2 -> $out\n",
               "task X\n    1 -> $out\n    2 -> $out\n    3\n",
               "task X\n    if 1 == 1\n        5\n",
               "task X\n    while false\n        5\n\n# done\n",
               "task R[2]\n    [$index, 7][0]\n",
               "task X[0]\n    1\n",
               "task X\n    @\n",
               "task X\n    1\n      2\n",
               "task X\n \t1\n",
               "task X\n    if 1\n            2\n",
               "task X\n    1 +\n",
               "task X\n    (1\n",
               "task X\n    1",
               "task X\n    if 1 == 1\n        5",
               "task X\n    while false\n        5",
               "task X\n    if true\n        if true\n            1\n    2\n",
               "task X\n    @ - 1\n",
               "task X\n    3 - 1\n",
               "task X\n    -3\n",
               "task X\n    99\n" }

\* Mutant of Tokenize: the tokenizer does not record the level of the line.
TokenizeKeepingLevel ==
    /\ phase = "tokenize"
    /\ ~is_at_end(tokenizer)
    /\ tokenizer' = [TokenizeIteration(tokenizer) EXCEPT
                        !.indent_level = tokenizer.indent_level]
    /\ phase' = IF tokenizer'.panicked THEN "aborted" ELSE "tokenize"
    /\ UNCHANGED << items, globals, tasks, next_task_id, result_queue, next_channel,
                    wire_calls, workers, results, join_count, reports, stdout, sent,
                    received, parser >>

\* run_code: one iteration of the loop of tokenize; a panic unwinds run_code.
Tokenize ==
    /\ phase = "tokenize"
    /\ ~is_at_end(tokenizer)
    /\ tokenizer' = TokenizeIteration(tokenizer)
    /\ phase' = IF tokenizer'.panicked THEN "aborted" ELSE "tokenize"
    /\ UNCHANGED << items, globals, tasks, next_task_id, result_queue, next_channel,
                    wire_calls, workers, results, join_count, reports, stdout, sent,
                    received, parser >>

\* run_code: tokenize returns, having pushed EndOfFile; with an error
\* recorded run_code returns None, otherwise the parser is made.
TokenizeEnd ==
    /\ phase = "tokenize"
    /\ is_at_end(tokenizer)
    /\ tokenizer' = push_token(tokenizer, Token("EndOfFile"))
    /\ IF tokenizer.errors # << >>
       THEN phase' = "rejected" /\ parser' = parser
       ELSE phase' = "parse" /\ parser' = Parser(tokenizer'.tokens)
    /\ UNCHANGED << items, globals, tasks, next_task_id, result_queue, next_channel,
                    wire_calls, workers, results, join_count, reports, stdout, sent,
                    received >>

\* run_code: parse_top_level; with an error recorded run_code returns None,
\* otherwise the runtime is made and is handed the items.
Parse ==
    /\ phase = "parse"
    /\ parser' = parse_items(parser)
    /\ phase' = CASE parser'.diverged -> "diverged"
                  [] ~parser'.diverged /\ parser'.errors # << >> -> "rejected"
                  [] OTHER -> "register"
    /\ items' = IF phase' = "register" THEN parser'.items ELSE items
    /\ UNCHANGED << globals, tasks, next_task_id, result_queue, next_channel,
                    wire_calls, workers, results, join_count, reports, stdout, sent,
                    received, tokenizer >>

InitFrontEnd ==
    /\ tokenizer \in { Tokenizer(chars(input)) : input \in Sources }
    /\ parser = Parser(<< >>)
    /\ items = << >>
    /\ phase = "tokenize"
    /\ globals = [task_values_by_name |-> EmptyMap, task_descriptions_by_id |-> EmptyMap]
    /\ tasks = << >>
    /\ next_task_id = 1
    /\ result_queue = << >>
    /\ next_channel = 0
    /\ wire_calls = 0
    /\ workers = << >>
    /\ results = EmptyMap
    /\ join_count = 0
    /\ reports = << >>
    /\ stdout = << >>
    /\ sent = EmptyMap
    /\ received = EmptyMap

\* run_code calls create_task_channels once.
NextFrontEnd ==
    \/ Tokenize
    \/ TokenizeEnd
    \/ Parse
    \/ AddTask
    \/ (phase = "register" /\ CreateTaskChannels)
    \/ Start
    \/ \E p \in DOMAIN workers : WorkerLocal(p)
    \/ \E p \in DOMAIN workers : WorkerSend(p)
    \/ \E p \in DOMAIN workers : WorkerReceive(p)
    \/ \E r \in DOMAIN workers : \E s \in DOMAIN workers : Rendezvous(r, s)
    \/ \E p \in DOMAIN workers : WorkerComplete(p)
    \/ JoinReceive
    \/ JoinReturn

FrontEndSpec == InitFrontEnd /\ [][NextFrontEnd]_vars

\* run_code is over: it has returned (Some or None), was unwound, or cannot return.
RunOver == phase \in {"joined", "rejected", "aborted", "diverged"}

\* The source text run_code was called with is `input`.
RunOf(input) == tokenizer.input = chars(input)

\* C30: a body's statements run in order up to the first that fails, the
\* task's result is the value of its last statement (Null after an Assign,
\* Send or Receive), and blank lines between two statements change nothing:
\* whatever stands between `1` and `2`, the run ends with Ok(2) for X.
C30_BodyResult ==
    /\ \A blank \in BlankLines :
          RunOf(TwoStatements(blank)) /\ RunOver
              => phase = "joined" /\ results = ("X" :> Ok(Integer(2)))
    /\ RunOf("task X\n    a = 1\n") /\ RunOver => results = ("X" :> Ok(Null))
    /\ RunOf("task X\n    1 -> $out\n") /\ RunOver
          => results = ("X" :> Ok(Null)) /\ stdout = << "1" >>
    /\ RunOf("task A\n    1 -> B\ntask B\n    x <- A\n") /\ RunOver
          => results = ("A" :> Ok(Null)) @@ ("B" :> Ok(Null))
    /\ RunOf("task X\n    1 -> $out\n    2 -> $out\n    3\n")
          => /\ stdout \in {<< >>, << "1" >>, << "1", "2" >>}
             /\ RunOver => results = ("X" :> Ok(Integer(3))) /\ stdout = << "1", "2" >>
    /\ RunOf("task X\n    1 -> $out\n    y\n    2 -> $out\n")
          => /\ stdout \in {<< >>, << "1" >>}
             /\ RunOver => DOMAIN results = {"X"} /\ ~results["X"].ok /\ stdout = << "1" >>

\* The tokenizer or the parser has recorded an error.
ErrorRecorded == tokenizer.errors # << >> \/ parser.errors # << >>

\* No task is registered, no channel created and no worker started.
RuntimeUntouched ==
    /\ tasks = << >>
    /\ globals = [task_values_by_name |-> EmptyMap, task_descriptions_by_id |-> EmptyMap]
    /\ next_task_id = 1
    /\ next_channel = 0
    /\ wire_calls = 0
    /\ workers = << >>
    /\ result_queue = << >>

\* C26: once the tokenizer or the parser has recorded an error, no task is
\* registered, no channel is created, no worker is started, and when the run
\* is over run_code has returned None.
C26_ErrorsStopTheRun ==
    ErrorRecorded => /\ RuntimeUntouched
                     /\ phase \in {"tokenize", "rejected", "aborted", "diverged"}
                     /\ RunOver => phase = "rejected"

\* C27: `a = b = 1` parses to Assign{a, Assign{b, 1}}, and the destination
\* of every Assign node parsed from a chain of identifiers is an Identifier.
C27_AssignRightAssociative ==
    RunOf("task X\n    a = b = 1\n") /\ phase \notin {"tokenize", "parse"}
        => /\ parser.items =
                << TaskDefinition("X",
                                  Body(<< Assign(Identifier("a"),
                                                 Assign(Identifier("b"),
                                                        IntegerLiteral(1))) >>),
                                  None) >>
           /\ \A i \in DOMAIN parser.items : \A k \in DOMAIN parser.items[i].body.items :
                 LET node == parser.items[i].body.items[k]
                 IN node.kind = "Assign" => node.destination.kind = "Identifier"

\* The conditions that evaluate to Null or to Boolean(false).
FalsyConditions == { NullLiteral, BooleanLiteral(FALSE) }

\* The only statement of the only frame is an If, its body the literal 5.
TestsIf ==
    /\ Len(tasks) = 1
    /\ Len(tasks[1].body.items) = 1
    /\ tasks[1].body.items[1].kind = "If"

\* The only frame counts the turns of a While over [c, d, null].
CountsWhile ==
    /\ Len(tasks) = 1
    /\ Len(tasks[1].body.items) = 3
    /\ tasks[1].body.items[3].kind = "While"

\* The number of turns of `while cs[i]` over [c, d, null] when a turn is
\* taken exactly for a condition that is not falsy.
TurnsOf(c, d) == IF c \in FalsyConditions THEN 0 ELSE IF d \in FalsyConditions THEN 1 ELSE 2

\* C31 (truthiness): is_truthy is false exactly for Null and Boolean(false);
\* `if c then 5` yields 5 iff c is truthy and Null otherwise; a While takes a
\* turn for every truthy condition and stops at the first falsy one,
\* yielding the last value of its body, or Null when the body never ran.
C31_Truthiness ==
    /\ \A v \in { Null, Boolean(FALSE), Boolean(TRUE), Integer(0), Integer(1),
                  Array(<< >>), Array(<< Boolean(FALSE) >>),
                  RangeValue(Integer(0), Integer(0)), TaskReference(1, "X"), MagicOut } :
          is_truthy(v) <=> v \notin { Null, Boolean(FALSE) }
    /\ TestsIf /\ Ended =>
          workers[1].result = IF tasks[1].body.items[1].condition \in FalsyConditions
                              THEN Ok(Null)
                              ELSE Ok(Integer(5))
    /\ CountsWhile /\ Ended =>
          LET cs == tasks[1].body.items[1].value.items
              turns == TurnsOf(cs[1], cs[2])
          IN workers[1].result = IF turns = 0 THEN Ok(Null) ELSE Ok(Integer(turns))

\* C31 witness: join has returned 2 for the While whose conditions were 0
\* and the empty array, then null.
C31_Witness ==
    /\ phase = "joined"
    /\ tasks[1].body = WhileCounting(IntegerLiteral(0), ArrayLiteral(<< >>))[1].body
    /\ results = MapInsert(EmptyMap, "X", Ok(Integer(2)))

\* The only frame runs `a = 1; b = 2; destination = value`.
AssignsTo ==
    /\ Len(tasks) = 1
    /\ Len(tasks[1].body.items) = 3
    /\ tasks[1].body.items[3].kind = "Assign"

\* The value of one of AssignedValues under the locals: an Assign yields Null.
Denoted(node, locals) ==
    CASE node.kind = "IntegerLiteral" -> Integer(node.i)
      [] node.kind = "NullLiteral" -> Null
      [] node.kind = "Identifier" -> locals[node.name]
      [] node.kind = "Assign" -> Null

\* The locals once the value of the Assign is evaluated: an Assign that is
\* the value has bound its own destination.
AfterValue(value, locals) ==
    IF value.kind = "Assign"
    THEN MapInsert(locals, value.destination.name, Denoted(value.value, locals))
    ELSE locals

\* The step that evaluates an Assign of the frame: with an Identifier as
\* destination it binds that name to the value, keeps every other local and
\* yields Null (to the Body, or as the frame's result after the last
\* statement); with another destination the frame ends with the Form error
\* and the locals it had before the Assign.
AssignFrame ==
    (/\ AssignsTo
     /\ workers # << >>
     /\ workers[1].status = "running"
     /\ Current(workers[1]).kind = "Assign"
     /\ workers' # workers) =>
        LET w == workers[1]
            stmt == Current(w)
            before == w.task.locals
            after == workers'[1].task.locals
        IN IF stmt.destination.kind = "Identifier"
           THEN /\ after = MapInsert(AfterValue(stmt.value, before), stmt.destination.name,
                                     Denoted(stmt.value, before))
                /\ \A name \in DOMAIN AfterValue(stmt.value, before) :
                      name # stmt.destination.name =>
                          after[name] = AfterValue(stmt.value, before)[name]
                /\ IF Top(w).i < Len(Top(w).node.items)
                   THEN /\ workers'[1].status = "running"
                        /\ Top(workers'[1]).result = Null
                        /\ Top(workers'[1]).i = Top(w).i + 1
                   ELSE /\ workers'[1].status = "evaluated"
                        /\ workers'[1].result = Ok(Null)
           ELSE /\ workers'[1].status = "evaluated"
                /\ workers'[1].result = Err("expected identifier for result of assign")
                /\ after = before

\* C32 (Assign frame): an Assign to an Identifier binds exactly that name to
\* the evaluated value, leaves every other local unchanged and yields Null;
\* an Assign to anything else fails with the Form error and leaves the
\* locals as they were before the Assign.
C32_AssignFrame == [][AssignFrame]_vars

\* The worker r is blocked in a directed receive, and the worker s is blocked
\* in a send to r's frame that r is not receiving from.
BlockedOnAnother(r, s) ==
    /\ workers[r].status = "receiving"
    /\ ~Current(workers[r]).bind_channel
    /\ workers[s].status = "sending"
    /\ workers[s].out_to = workers[r].task.id
    /\ \A e \in workers[r].wait : e.from # workers[s].task.id

\* While r is blocked in a directed receive from another peer, the send of s
\* stays as it is: s is still blocked with the same value, and nothing more
\* is received from s.
OtherSendWaits ==
    \A r \in DOMAIN workers : \A s \in DOMAIN workers :
        BlockedOnAnother(r, s) =>
            /\ workers'[s] = workers[s]
            /\ LogOf(received', << workers[s].task.id, workers[r].task.id >>)
                   = LogOf(received, << workers[s].task.id, workers[r].task.id >>)

\* The frames are those of DirectedPair(u, v) for the literals of U and V.
ReceivesFromPair ==
    /\ Len(tasks) = 3
    /\ tasks[1].body = DirectedPair(tasks[2].body.items[1].value.i,
                                    tasks[3].body.items[1].value.i)[1].body

\* R has taken U's value into x and V's value into y, whichever was sent
\* first.
EachFromItsPeer ==
    (ReceivesFromPair /\ workers # << >> /\ workers[1].status \in {"evaluated", "finished"}) =>
        workers[1].result = Ok(Array(<< Integer(tasks[2].body.items[1].value.i),
                                        Integer(tasks[3].body.items[1].value.i) >>))

\* C33 (a directed receive takes only its peer's value): while a frame is
\* blocked in a directed receive from U, a send to it from another peer V
\* stays blocked with its value, which is neither taken nor dropped, and the
\* later receive from V gets that value unchanged.
C33_DirectedReceive ==
    /\ [][OtherSendWaits]_vars
    /\ []EachFromItsPeer

\* C33 witness: R is blocked in its receive from U, U has not sent yet, and V
\* is blocked in its send of 2 to R.
C33_Witness ==
    /\ ReceivesFromPair
    /\ workers # << >>
    /\ BlockedOnAnother(1, 3)
    /\ workers[1].wait = {[from |-> 2, chan |-> workers[1].task.receivers[2]]}
    /\ workers[2].status = "running"
    /\ workers[3].out_value = Integer(2)

\* The frames are S and R of ReceiveInto, and the target of R's Receive is
\* malformed: its destination, or in select form its channel binding, is no
\* Identifier.
MalformedTarget ==
    /\ Len(tasks) = 2
    /\ tasks[2].body.items[1].kind = "Receive"
    /\ \/ tasks[2].body.items[1].value.kind # "Identifier"
       \/ /\ tasks[2].body.items[1].bind_channel
          /\ tasks[2].body.items[1].channel.kind # "Identifier"

\* The Form error of a Receive with the target `node`.
FormErrorOf(node) ==
    IF node.value.kind # "Identifier"
    THEN Err("expected identifier for result of assign")
    ELSE Err("expected identifier to assign to as binding channel receiver")

\* C34 (a Receive with a malformed target consumes before it fails): the
\* receiving frame does not end before it has taken the peer's value; once
\* it has, the peer's Send has completed and the peer goes on to its result,
\* while the receiving frame ends with the Form error, the value discarded
\* and no local bound.
C34_ConsumesBeforeFailing ==
    (MalformedTarget /\ workers # << >>) =>
        LET s == workers[1]
            r == workers[2]
            taken == LogOf(received, << s.task.id, r.task.id >>)
        IN /\ r.status # "panicked"
           /\ r.status \in {"running", "receiving"} =>
                 /\ taken = << >>
                 /\ s.status \in {"running", "sending"}
           /\ r.status \in {"evaluated", "finished"} =>
                 /\ taken = << Integer(1) >>
                 /\ s.status # "sending"
                 /\ r.result = FormErrorOf(tasks[2].body.items[1])
                 /\ r.task.locals = EmptyMap
           /\ s.status \in {"evaluated", "finished"} =>
                 /\ taken = << Integer(1) >>
                 /\ s.result = Ok(Integer(7))

\* C34 witness: join has returned for `3 <- ?c`: S has its result 7 after its
\* send, R the Form error, and R has bound no local.
C34_Witness ==
    /\ phase = "joined"
    /\ MalformedTarget
    /\ tasks[2].body = ReceiveInto(IntegerLiteral(3), Identifier("c"), TRUE)[2].body
    /\ results = ("S" :> Ok(Integer(7)))
                     @@ ("R" :> Err("expected identifier for result of assign"))
    /\ workers[2].task.locals = EmptyMap
    /\ LogOf(received, << 1, 2 >>) = << Integer(1) >>

\* C35 (parsing terminates): for every token sequence the tokenizer hands
\* over, parse_top_level returns with its items and errors, also when the
\* source does not end with a newline and a body is closed by no Dedent: no
\* loop of the parser is left running.
C35_ParsingTerminates == ~parser.diverged /\ phase # "diverged"

\* The tokenizer has unwound in the branch for numbers on a buffer that is
\* only a '-'.
AbortedOnMinus == tokenizer.panicked /\ tokenizer.input[tokenizer.index] = "-"

\* C36 (minus is tokenized without failure): the tokenizer never aborts on a
\* '-'; a '-' before a digit is part of the IntegerLiteral, so `-3` is the
\* integer -3, and any other '-' not followed by '>' is a Subtract, so
\* `3 - 1` is evaluated as a subtraction and yields 2.
C36_MinusTokenized ==
    /\ ~AbortedOnMinus
    /\ RunOf("task X\n    -3\n") /\ RunOver
          => phase = "joined" /\ results = ("X" :> Ok(Integer(-3)))
    /\ RunOf("task X\n    3 - 1\n") /\ RunOver
          => phase = "joined" /\ results = ("X" :> Ok(Integer(2)))

\* The number of tokens of a kind.
CountOf(kind, tokens) == Cardinality({k \in DOMAIN tokens : tokens[k].kind = kind})

\* Indent tokens minus Dedent tokens is the indentation level, as long as no
\* error is recorded.
IndentationBalanced ==
    tokenizer.errors = << >> =>
        CountOf("Indent", tokenizer.tokens) - CountOf("Dedent", tokenizer.tokens)
            = tokenizer.indent_level

\* What one iteration of tokenize emits for a change of the level: one
\* Indent for one level more, k Dedents for k levels less, nothing for the
\* same level, and an error without an Indent for more than one level more.
IndentationStep ==
    LET emitted == SubSeq(tokenizer'.tokens, Len(tokenizer.tokens) + 1,
                          Len(tokenizer'.tokens))
        indents == CountOf("Indent", emitted)
        dedents == CountOf("Dedent", emitted)
        old == tokenizer.indent_level
        new == tokenizer'.indent_level
    IN /\ new = old + 1 => indents = 1 /\ dedents = 0
       /\ new <= old => indents = 0 /\ dedents = old - new
       /\ new > old + 1 => indents = 0 /\ dedents = 0
                           /\ Len(tokenizer'.errors) = Len(tokenizer.errors) + 1
       /\ tokenizer'.errors = tokenizer.errors => new <= old + 1

\* C37 (indentation balance): while no error is recorded the Indent tokens
\* emitted minus the Dedent tokens emitted equal indent_level; a line more
\* than one level deeper than the line before records an error and emits no
\* Indent; a decrease by k levels emits exactly k Dedent tokens.
C37_IndentationBalance ==
    /\ []IndentationBalanced
    /\ [][IndentationStep]_vars

\* C37 witness: tokenization has ended without an error at level 0 after two
\* Indent tokens and a decrease by two levels at once.
C37_Witness ==
    /\ phase # "tokenize"
    /\ tokenizer.errors = << >>
    /\ tokenizer.indent_level = 0
    /\ CountOf("Indent", tokenizer.tokens) = 2
    /\ \E k \in DOMAIN tokenizer.tokens :
          /\ k < Len(tokenizer.tokens)
          /\ tokenizer.tokens[k].kind = "Dedent"
          /\ tokenizer.tokens[k + 1].kind = "Dedent"

=============================================================================
